---------------------------- MODULE Spec2Model ----------------------------
(***************************************************************************)
(* Access-control and audit core of gc-py-backend:                         *)
(*   app/services/permission_service.py  (policy store, policy cache,      *)
(*                                         permission engine)              *)
(*   app/services/audit_service.py       (audit log and its queries)       *)
(*   app/services/admin_user_service.py  (user lifecycle manager)          *)
(*                                                                         *)
(* Python values are modelled as follows.  Optional[T] is a sequence of    *)
(* length 0 (None) or 1 (the value).  A dict is a function whose DOMAIN is *)
(* the set of its keys.  A str is a sequence of one-character strings.     *)
(***************************************************************************)
EXTENDS Integers, Sequences, FiniteSets, TLC

VARIABLES
    permStore,       \* Firestore collection gc-permissions: role -> Optional[document]
    permCache,       \* PermissionService._permissions_cache: dict role -> document
    cacheTimestamp,  \* PermissionService._cache_timestamp: Optional[datetime]
    now,             \* wall clock (datetime.utcnow() / the store's clock), whole seconds
    micro,           \* wall clock, the microseconds within the second
    ticks,           \* number of clock advances so far
    proc,            \* per request: position in get_role_permissions / create_role_permissions
    users,           \* Firestore collection gc-users: user id -> Optional[document]
    auditLog,        \* Firestore collection gc-audit-logs: the documents, in insertion order
    last             \* the last completed call and what it returned

permVars == <<permStore, permCache, cacheTimestamp, now, micro, ticks, proc>>
lifeVars == <<users, auditLog>>
vars == <<permStore, permCache, cacheTimestamp, now, micro, ticks, proc, users, auditLog, last>>

(***************************************************************************)
(* Python helpers                                                          *)
(***************************************************************************)
None == <<>>
Some(x) == <<x>>
EmptyDict == [k \in {} |-> {}]
InList(x, l) == \E i \in 1..Len(l) : l[i] = x
DictSet(d, k, v) == [x \in (DOMAIN d) \cup {k} |-> IF x = k THEN v ELSE d[x]]
\* dict.update / doc_ref.update(updates)
DictUpdate(d, u) == [x \in (DOMAIN d) \cup (DOMAIN u) |-> IF x \in DOMAIN u THEN u[x] ELSE d[x]]

\* str.strip(): leading and trailing whitespace removed
IsSpace(c) == c \in {" ", "\t", "\n"}
RECURSIVE LStrip(_)
LStrip(s) == IF s # <<>> /\ IsSpace(Head(s)) THEN LStrip(Tail(s)) ELSE s
RECURSIVE RStrip(_)
RStrip(s) == IF s # <<>> /\ IsSpace(s[Len(s)]) THEN RStrip(SubSeq(s, 1, Len(s) - 1)) ELSE s
Strip(s) == RStrip(LStrip(s))

(***************************************************************************)
(* Bounds of the model                                                     *)
(***************************************************************************)
MaxTicks == 2

(***************************************************************************)
(* Permission service                                                      *)
(***************************************************************************)
VALID_ROLES == {"customer", "partner", "support", "admin"}
PermRoles == {"admin", "support"}
Resources == {"users", "audit_logs"}
Actions == {"view", "edit"}
TickSteps == {1, 299}

cache_ttl_seconds == 300

\* A resource entry of a permission document: a dict with the optional keys
\* "actions" (a list) and "scope" (own / assigned / all).
Entry(actions, scope) == [actions |-> actions, scope |-> scope]
EntryChoices ==
    { Entry(Some(<<"view">>), Some("all")),
      Entry(Some(<<"edit", "*">>), Some("own")),
      Entry(Some(<<>>), Some("all")),
      Entry(None, Some("assigned")),
      Entry(None, None) }

\* The values of the `resources` argument the model draws from.
ResourcesChoices ==
    { EmptyDict }
    \cup { [x \in {"users"} |-> e] : e \in EntryChoices }
    \cup { [x \in Resources |-> IF x = "users" THEN Entry(Some(<<"view", "edit">>), None)
                                                ELSE Entry(Some(<<"view">>), Some("own"))] }

\* _is_cache_valid
IsCacheValid_Inclusive(ts, clock) ==
    ts # None /\ clock - ts[1] <= cache_ttl_seconds
IsCacheValid(ts, clock) ==
    IF ts = None THEN FALSE
    ELSE clock - ts[1] < cache_ttl_seconds

\* get_role_permissions, the cache test of its first statement
CacheHit(cache, ts, clock, role) ==
    IsCacheValid(ts, clock) /\ role \in DOMAIN cache

\* get_role_permissions, the cache update after a fetch that found a document
CacheInsert(cache, role, permissions) == DictSet(cache, role, permissions)

StampOnInsert(ts, clock) == IF ts = None THEN Some(clock) ELSE ts

\* invalidate_cache
ClearedCache_Kept == permCache
ClearedCache == EmptyDict
ClearedTimestamp == None

\* create_role_permissions, the document it writes.  createdAt and updatedAt
\* are server timestamps that no code of the service reads; they are left out
\* of the document.
PermissionData(role, description, resources) ==
    [role |-> role, description |-> description, resources |-> resources]

\* check_permission, the decision once the role's document has been looked up
ActionAllowed_NoWildcard(action, allowed_actions) == InList(action, allowed_actions)
ActionAllowed(action, allowed_actions) ==
    InList(action, allowed_actions) \/ InList("*", allowed_actions)

DecidePermission_FailOpen(permissions, resource, action) ==
    IF permissions = None THEN TRUE
    ELSE LET resources == permissions[1].resources
         IN resource \in DOMAIN resources
            /\ resources[resource].actions # None
            /\ ActionAllowed(action, resources[resource].actions[1])
DecidePermission(permissions, resource, action) ==
    IF permissions = None THEN FALSE
    ELSE LET resources == permissions[1].resources
             resource_perms == IF resource \in DOMAIN resources
                               THEN resources[resource]
                               ELSE Entry(None, None)
         IN IF resource_perms = Entry(None, None) THEN FALSE
            ELSE LET allowed_actions == IF resource_perms.actions = None
                                        THEN <<>>
                                        ELSE resource_perms.actions[1]
                 IN ActionAllowed(action, allowed_actions)


\* get_role_permissions run without interruption: <<returned value, cache, timestamp>>
GetRolePermissions(role) ==
    IF CacheHit(permCache, cacheTimestamp, now, role)
    THEN <<Some(permCache[role]), permCache, cacheTimestamp>>
    ELSE IF permStore[role] # None
         THEN <<permStore[role],
                CacheInsert(permCache, role, permStore[role][1]),
                StampOnInsert(cacheTimestamp, now)>>
         ELSE <<None, permCache, cacheTimestamp>>

Idle == [pc |-> "idle"]
AllIdle == \A p \in DOMAIN proc : proc[p] = Idle

\* What a create_role_permissions call leaves in `last`.
CreateRecord(role, permission_data) ==
    [op |-> "create_role_permissions", role |-> role, permissions |-> permission_data,
     replacedCached |-> CacheHit(permCache, cacheTimestamp, now, role)
                        /\ permCache[role] # permission_data,
     cachedAt |-> cacheTimestamp]

\* What a check_permission call leaves in `last`.
CheckRecord(role, resource, action, got) ==
    [op |-> "check_permission", role |-> role, resource |-> resource, action |-> action,
     hit |-> CacheHit(permCache, cacheTimestamp, now, role),
     permissions |-> got,
     result |-> DecidePermission(got, resource, action),
     afterCreate |-> IF last.op = "create_role_permissions" /\ last.role = role
                     THEN Some(last) ELSE None]

\* check_permission(role, resource, action), run without interruption
CheckPermission(role, resource, action) ==
    LET got == GetRolePermissions(role) IN
    /\ AllIdle
    /\ permCache' = got[2]
    /\ cacheTimestamp' = got[3]
    /\ last' = CheckRecord(role, resource, action, got[1])
    /\ UNCHANGED <<permStore, now, micro, ticks, proc, users, auditLog>>

\* create_role_permissions(role, description, resources), run without interruption
CreateRolePermissions(role, description, resources) ==
    LET permission_data == PermissionData(role, description, resources) IN
    /\ AllIdle
    /\ permStore' = [permStore EXCEPT ![role] = Some(permission_data)]
    /\ permCache' = ClearedCache
    /\ cacheTimestamp' = ClearedTimestamp
    /\ last' = CreateRecord(role, permission_data)
    /\ UNCHANGED <<now, micro, ticks, proc, users, auditLog>>

\* invalidate_cache(), called on its own
InvalidateCache ==
    /\ AllIdle
    /\ permCache' = ClearedCache
    /\ cacheTimestamp' = ClearedTimestamp
    /\ last' = [op |-> "invalidate_cache"]
    /\ UNCHANGED <<permStore, now, micro, ticks, proc, users, auditLog>>

\* The clock advances.
Tick(d) ==
    /\ ticks < MaxTicks
    /\ now' = now + d
    /\ micro' = micro
    /\ ticks' = ticks + 1
    /\ UNCHANGED <<permStore, permCache, cacheTimestamp, proc, users, auditLog, last>>

NoCall == [op |-> "none"]

InitPerm ==
    /\ permStore = [r \in PermRoles |-> None]
    /\ permCache = EmptyDict
    /\ cacheTimestamp = None
    /\ now = 0
    /\ micro = 0
    /\ ticks = 0
    /\ proc = EmptyDict
    /\ users = EmptyDict
    /\ auditLog = <<>>
    /\ last = NoCall

NextPerm ==
    \/ \E role \in PermRoles, resource \in Resources, action \in Actions :
          CheckPermission(role, resource, action)
    \/ \E role \in PermRoles, resources \in ResourcesChoices :
          CreateRolePermissions(role, "policy", resources)
    \/ InvalidateCache
    \/ \E d \in TickSteps : Tick(d)

SpecPerm == InitPerm /\ [][NextPerm]_vars


(***************************************************************************)
(* Overlapping calls.  A request runs until it reaches store I/O; the      *)
(* store serves the operation, and the request resumes some time later.    *)
(* Other requests run in between.                                          *)
(***************************************************************************)
Procs == {"p1", "p2"}
ConcRoles == {"admin"}
ConcResourcesChoices ==
    { [x \in {"users"} |-> Entry(Some(<<"view">>), Some("all"))],
      [x \in {"users"} |-> Entry(Some(<<"edit", "*">>), Some("own"))],
      EmptyDict }
\* The collection as scripts/seed_permissions.py leaves it before the service starts.
SeededResources == [x \in {"users"} |-> Entry(Some(<<"view">>), Some("all"))]

GetRecord(role, got, hit) ==
    [op |-> "get_role_permissions", role |-> role, permissions |-> got, hit |-> hit]

\* get_role_permissions lines 39-42: the cache holds the role, return it
ReadHit(p, role) ==
    /\ proc[p] = Idle
    /\ CacheHit(permCache, cacheTimestamp, now, role)
    /\ last' = GetRecord(role, Some(permCache[role]), TRUE)
    /\ UNCHANGED <<permVars, lifeVars>>

\* get_role_permissions lines 39-46: a miss, the document fetch is issued
ReadMiss(p, role) ==
    /\ proc[p] = Idle
    /\ ~CacheHit(permCache, cacheTimestamp, now, role)
    /\ proc' = [proc EXCEPT ![p] = [pc |-> "fetching", role |-> role]]
    /\ UNCHANGED <<permStore, permCache, cacheTimestamp, now, micro, ticks, users, auditLog, last>>

\* the store serves doc_ref.get() (line 46)
ReadFetch(p) ==
    /\ proc[p].pc = "fetching"
    /\ proc' = [proc EXCEPT ![p] = [pc |-> "fetched", role |-> proc[p].role,
                                     doc |-> permStore[proc[p].role]]]
    /\ UNCHANGED <<permStore, permCache, cacheTimestamp, now, micro, ticks, users, auditLog, last>>

\* get_role_permissions lines 48-60: the request resumes with the fetched document
ReadResume(p) ==
    /\ proc[p].pc = "fetched"
    /\ IF proc[p].doc # None
       THEN /\ permCache' = CacheInsert(permCache, proc[p].role, proc[p].doc[1])
            /\ cacheTimestamp' = StampOnInsert(cacheTimestamp, now)
       ELSE UNCHANGED <<permCache, cacheTimestamp>>
    /\ proc' = [proc EXCEPT ![p] = Idle]
    /\ last' = GetRecord(proc[p].role, proc[p].doc, FALSE)
    /\ UNCHANGED <<permStore, now, micro, ticks, users, auditLog>>

\* create_role_permissions lines 173-182: the store applies doc_ref.set()
WriteSet(p, role, description, resources) ==
    /\ proc[p] = Idle
    /\ permStore' = [permStore EXCEPT
                        ![role] = Some(PermissionData(role, description, resources))]
    /\ proc' = [proc EXCEPT ![p] = [pc |-> "written", role |-> role]]
    /\ UNCHANGED <<permCache, cacheTimestamp, now, micro, ticks, users, auditLog, last>>

\* create_role_permissions lines 184-189: the request resumes and invalidates
WriteResume(p) ==
    /\ proc[p].pc = "written"
    /\ permCache' = ClearedCache
    /\ cacheTimestamp' = ClearedTimestamp
    /\ proc' = [proc EXCEPT ![p] = Idle]
    /\ last' = [op |-> "create_role_permissions", role |-> proc[p].role,
                permissions |-> permStore[proc[p].role][1]]
    /\ UNCHANGED <<permStore, now, micro, ticks, users, auditLog>>

InitPermConc ==
    /\ permStore = [r \in PermRoles |->
                      IF r \in ConcRoles
                      THEN Some(PermissionData(r, "policy", SeededResources))
                      ELSE None]
    /\ permCache = EmptyDict
    /\ cacheTimestamp = None
    /\ now = 0
    /\ micro = 0
    /\ ticks = 0
    /\ proc = [p \in Procs |-> Idle]
    /\ users = EmptyDict
    /\ auditLog = <<>>
    /\ last = NoCall

NextPermConc ==
    \/ \E p \in Procs, role \in ConcRoles : ReadHit(p, role)
    \/ \E p \in Procs, role \in ConcRoles : ReadMiss(p, role)
    \/ \E p \in Procs : ReadFetch(p)
    \/ \E p \in Procs : ReadResume(p)
    \/ \E p \in Procs, role \in ConcRoles, resources \in ConcResourcesChoices :
          WriteSet(p, role, "policy", resources)
    \/ \E p \in Procs : WriteResume(p)
    \/ \E d \in TickSteps : Tick(d)

SpecPermConc == InitPermConc /\ [][NextPermConc]_vars

(***************************************************************************)
(* Claims about the permission engine and the policy cache                 *)
(***************************************************************************)
\* The claim's reading of "permitted", stated on a stored document.
HasWildcard(doc, resource) ==
    /\ doc # None
    /\ resource \in DOMAIN doc[1].resources
    /\ doc[1].resources[resource].actions # None
    /\ "*" \in { doc[1].resources[resource].actions[1][i] :
                   i \in 1..Len(doc[1].resources[resource].actions[1]) }
HasLiteral(doc, resource, action) ==
    /\ doc # None
    /\ resource \in DOMAIN doc[1].resources
    /\ doc[1].resources[resource].actions # None
    /\ action \in { doc[1].resources[resource].actions[1][i] :
                      i \in 1..Len(doc[1].resources[resource].actions[1]) }

\* C1: check_permission returns true exactly when the role has a document, the
\* document has an entry for the resource and the entry's action list holds the
\* action or "*"; in every other case it returns false, for every role, scope
\* tag and content of the other roles' documents.
C1_CheckPermissionExact ==
    last.op = "check_permission" =>
        (last.result <=> ( HasLiteral(permStore[last.role], last.resource, last.action)
                           \/ HasWildcard(permStore[last.role], last.resource) ))
C1_Witness ==
    /\ last.op = "check_permission"
    /\ last.role = "admin"
    /\ last.result = FALSE
    /\ permStore["admin"] # None
    /\ last.resource \in DOMAIN permStore["admin"][1].resources
    /\ permStore["admin"][1].resources[last.resource].actions = Some(<<"view">>)
    /\ last.action = "edit"
    /\ HasWildcard(permStore["support"], last.resource)

\* C2: when the entry's action list contains "*", check_permission returns true
\* for every action, named in the list or not.
C2_WildcardGrantsAll ==
    (last.op = "check_permission" /\ HasWildcard(permStore[last.role], last.resource))
        => last.result = TRUE
C2_Witness ==
    /\ last.op = "check_permission"
    /\ HasWildcard(permStore[last.role], last.resource)
    /\ ~HasLiteral(permStore[last.role], last.resource, last.action)
    /\ last.result = TRUE

\* C3: a check_permission that follows a completed create_role_permissions for
\* the same role is evaluated against the newly written document, also within
\* the TTL window and whatever the cache held before; without overlapping calls
\* no cached document differs from the stored one, so no cache hit returns one.
C3_CheckSeesStoredDocument ==
    /\ \A r \in DOMAIN permCache : Some(permCache[r]) = permStore[r]
    /\ last.op = "check_permission" =>
          /\ last.permissions = permStore[last.role]
          /\ last.afterCreate # None =>
                /\ last.permissions = Some(last.afterCreate[1].permissions)
                /\ last.result = DecidePermission(Some(last.afterCreate[1].permissions),
                                                   last.resource, last.action)
C3_Witness ==
    /\ last.op = "check_permission"
    /\ last.afterCreate # None
    /\ last.afterCreate[1].replacedCached
    /\ now - last.afterCreate[1].cachedAt[1] < cache_ttl_seconds
    /\ last.result = TRUE


MaxAudit == 2

EVENT_USER_ROLE_CHANGED == "user.role_changed"
EVENT_USER_DEACTIVATED == "user.deactivated"
EVENT_USER_REACTIVATED == "user.reactivated"
EVENT_USER_UPDATED == "user.updated"

\* Python truthiness of an Optional[str]: None and "" are false.  A text
\* (reason, email) is a sequence of strings, an id is a TLA+ string.
Truthy(opt) == opt # None /\ opt[1] # <<>>
TruthyId(opt) == opt # None /\ opt[1] # ""
\* Python truthiness of an Optional[dict]
TruthyDict(opt) == opt # None /\ DOMAIN opt[1] # {}

AuditData_NoChanges(event_type, actor_id, actor_email, target_id, target_email, changes, reason, metadata, clock) ==
    [eventType |-> event_type,
     actorId |-> actor_id,
     actorEmail |-> actor_email,
     timestamp |-> clock,
     targetId |-> IF TruthyId(target_id) THEN target_id ELSE None,
     targetEmail |-> IF Truthy(target_email) THEN target_email ELSE None,
     changes |-> None,
     reason |-> IF Truthy(reason) THEN reason ELSE None,
     metadata |-> IF TruthyDict(metadata) THEN metadata ELSE None]

\* log_event lines 77-94: the stored document; optional fields are left out
\* (None here) unless the argument is truthy.
AuditData(event_type, actor_id, actor_email, target_id, target_email, changes, reason, metadata, clock) ==
    [eventType |-> event_type,
     actorId |-> actor_id,
     actorEmail |-> actor_email,
     timestamp |-> clock,
     targetId |-> IF TruthyId(target_id) THEN target_id ELSE None,
     targetEmail |-> IF Truthy(target_email) THEN target_email ELSE None,
     changes |-> IF TruthyDict(changes) THEN changes ELSE None,
     reason |-> IF Truthy(reason) THEN reason ELSE None,
     metadata |-> IF TruthyDict(metadata) THEN metadata ELSE None]

\* The store's clock: a server timestamp is <<seconds, microseconds>>.
ServerTimestamp == <<now, micro>>

\* db.collection(COLLECTION).add(audit_data): the store picks an unused document id.
UsedIds == { auditLog[i].id : i \in 1..Len(auditLog) }
FreshIds == (1..(Len(auditLog) + 1)) \ UsedIds
AddAuditDoc_Overwrite(log, id, audit_data) == <<[id |-> id, data |-> audit_data]>>
AddAuditDoc(log, id, audit_data) == Append(log, [id |-> id, data |-> audit_data])

(***************************************************************************)
(* Admin user service: change_user_role, deactivate_user, reactivate_user  *)
(***************************************************************************)
VALID_STATUSES == {"active", "inactive", "suspended"}
MinReasonLength == 10

UserIds == {"u1", "u2", "u3"}
ActorIds == {"u1", "u2"}
EmailOf(u) == <<u, "@gc.io">>

Rep(c, n) == [i \in 1..n |-> c]
\* The reasons the model draws from: None, "", nine letters with blanks around
\* them, ten letters, and ten characters (one of them an inner blank) with
\* blanks around them.
ReasonNone == None
ReasonEmpty == Some(<<>>)
ReasonNinePadded == Some(<<" ">> \o Rep("a", MinReasonLength - 1) \o <<" ">>)
ReasonTenPadded == Some(<<" ", " ">> \o Rep("c", MinReasonLength - 6) \o <<" ">>
                          \o Rep("c", 5) \o <<" ">>)
Reasons == {ReasonNone, ReasonEmpty, ReasonNinePadded, ReasonTenPadded}
RoleInputs == {"customer", "admin", "root"}

\* `not reason or len(reason.strip()) < 10`
ReasonTooShort_NoStrip(reason) == ~Truthy(reason) \/ Len(reason[1]) < MinReasonLength
ReasonTooShort(reason) == ~Truthy(reason) \/ Len(Strip(reason[1])) < MinReasonLength

\* What a service call plans to do: raise ValueError(message), or update the
\* user document with `updates` and log `event`.  A message that the code
\* completes with the offending value ("User not found: {user_id}") is kept
\* without that value.
Reject(message) == [error |-> Some(message), updates |-> EmptyDict, event |-> None]
Accept(updates, event) == [error |-> None, updates |-> updates, event |-> event]

\* user_data.get("status", default)
StatusOr(user_data, default) ==
    IF user_data.status = None THEN default ELSE user_data.status[1]

\* change_user_role lines 185-233, given the stored document (None: not found)
SelfRoleChange_Never(user_id, admin_id) == FALSE
SelfRoleChange(user_id, admin_id) == user_id = admin_id

ChangeUserRolePlan_NoPrevious(doc, user_id, new_role, admin_id, admin_email, reason) ==
    IF doc = None THEN Reject("User not found")
    ELSE Accept([role |-> new_role, roleChangedAt |-> Some(ServerTimestamp),
                 roleChangedBy |-> Some(admin_id), updatedAt |-> Some(ServerTimestamp)],
                Some(AuditData(EVENT_USER_ROLE_CHANGED, admin_id, admin_email,
                               Some(user_id), doc[1].email,
                               Some([role |-> [old |-> doc[1].role, new |-> new_role]]),
                               reason, None, ServerTimestamp)))
ChangeUserRolePlan(doc, user_id, new_role, admin_id, admin_email, reason) ==
    IF new_role \notin VALID_ROLES THEN Reject("Invalid role")
    ELSE IF ReasonTooShort(reason)
         THEN Reject("Reason must be at least 10 characters long")
    ELSE IF SelfRoleChange(user_id, admin_id) THEN Reject("Cannot change your own role")
    ELSE IF doc = None THEN Reject("User not found")
    ELSE LET user_data == doc[1]
             old_role == user_data.role
         IN IF old_role = new_role THEN Reject("User already has role")
            ELSE Accept([role |-> new_role,
                         previousRole |-> Some(old_role),
                         roleChangedAt |-> Some(ServerTimestamp),
                         roleChangedBy |-> Some(admin_id),
                         updatedAt |-> Some(ServerTimestamp)],
                        Some(AuditData(EVENT_USER_ROLE_CHANGED, admin_id, admin_email,
                                       Some(user_id), user_data.email,
                                       Some([role |-> [old |-> old_role, new |-> new_role]]),
                                       reason, None, ServerTimestamp)))

\* deactivate_user lines 266-310
DeactivateUserPlan_NoAdminGuard(doc, user_id, admin_id, admin_email, reason) ==
    IF doc = None THEN Reject("User not found")
    ELSE IF user_id = admin_id THEN Reject("Cannot deactivate your own account")
    ELSE IF StatusOr(doc[1], "active") = "inactive" THEN Reject("User is already inactive")
    ELSE Accept([status |-> Some("inactive"), statusChangedAt |-> Some(ServerTimestamp),
                 statusChangedBy |-> Some(admin_id), updatedAt |-> Some(ServerTimestamp)],
                Some(AuditData(EVENT_USER_DEACTIVATED, admin_id, admin_email,
                               Some(user_id), doc[1].email,
                               Some([status |-> [old |-> StatusOr(doc[1], "active"),
                                                 new |-> "inactive"]]),
                               reason, None, ServerTimestamp)))
DeactivateUserPlan(doc, user_id, admin_id, admin_email, reason) ==
    IF doc = None THEN Reject("User not found")
    ELSE LET user_data == doc[1] IN
    IF user_data.role = "admin" /\ user_id # admin_id
    THEN Reject("Cannot deactivate another admin user")
    ELSE IF user_id = admin_id THEN Reject("Cannot deactivate your own account")
    ELSE LET old_status == StatusOr(user_data, "active") IN
         IF old_status = "inactive" THEN Reject("User is already inactive")
         ELSE Accept([status |-> Some("inactive"),
                      statusChangedAt |-> Some(ServerTimestamp),
                      statusChangedBy |-> Some(admin_id),
                      updatedAt |-> Some(ServerTimestamp)],
                     Some(AuditData(EVENT_USER_DEACTIVATED, admin_id, admin_email,
                                    Some(user_id), user_data.email,
                                    Some([status |-> [old |-> old_status, new |-> "inactive"]]),
                                    reason, None, ServerTimestamp)))

\* reactivate_user lines 342-377
ReactivateUserPlan_NoActiveCheck(doc, user_id, admin_id, admin_email, reason) ==
    IF doc = None THEN Reject("User not found")
    ELSE Accept([status |-> Some("active"), statusChangedAt |-> Some(ServerTimestamp),
                 statusChangedBy |-> Some(admin_id), updatedAt |-> Some(ServerTimestamp)],
                Some(AuditData(EVENT_USER_REACTIVATED, admin_id, admin_email,
                               Some(user_id), doc[1].email,
                               Some([status |-> [old |-> StatusOr(doc[1], "inactive"),
                                                 new |-> "active"]]),
                               reason, None, ServerTimestamp)))
ReactivateUserPlan(doc, user_id, admin_id, admin_email, reason) ==
    IF doc = None THEN Reject("User not found")
    ELSE LET user_data == doc[1]
             old_status == StatusOr(user_data, "inactive")
         IN IF old_status = "active" THEN Reject("User is already active")
            ELSE Accept([status |-> Some("active"),
                         statusChangedAt |-> Some(ServerTimestamp),
                         statusChangedBy |-> Some(admin_id),
                         updatedAt |-> Some(ServerTimestamp)],
                        Some(AuditData(EVENT_USER_REACTIVATED, admin_id, admin_email,
                                       Some(user_id), user_data.email,
                                       Some([status |-> [old |-> old_status, new |-> "active"]]),
                                       reason, None, ServerTimestamp)))

\* A service call run without interruption: the document is read, the plan is
\* made, and an accepted plan is carried out: doc_ref.update(updates), then
\* AuditService.log_event(...).  `last` is the outcome on its way to the caller:
\* the call and its arguments, the document read (before), the number of audit
\* events before the call and whether the user document was written.  Calls are made one at a time: the next one starts
\* after Respond has handed the outcome over.
CallRecord(op, user_id, admin_id, args, reason, plan) ==
    [op |-> op, user_id |-> user_id, admin_id |-> admin_id, args |-> args,
     reason |-> reason,
     error |-> plan.error,
     before |-> users[user_id],
     audit_before |-> Len(auditLog),
     wrote |-> plan.error = None /\ DOMAIN plan.updates # {}]

Carry_TouchOnReject(op, user_id, admin_id, args, reason, plan) ==
    /\ last = NoCall
    /\ plan.event # None => Len(auditLog) < MaxAudit
    /\ IF plan.error = None /\ DOMAIN plan.updates # {}
       THEN users' = [users EXCEPT ![user_id] = Some(DictUpdate(users[user_id][1], plan.updates))]
       ELSE IF users[user_id] # None
       THEN users' = [users EXCEPT ![user_id] = Some([@[1] EXCEPT !.updatedAt = Some(ServerTimestamp)])]
       ELSE users' = users
    /\ IF plan.error = None /\ plan.event # None
       THEN \E id \in FreshIds : auditLog' = AddAuditDoc(auditLog, id, plan.event[1])
       ELSE auditLog' = auditLog
    /\ last' = CallRecord(op, user_id, admin_id, args, reason, plan)
    /\ UNCHANGED permVars

Carry(op, user_id, admin_id, args, reason, plan) ==
    /\ last = NoCall
    /\ plan.event # None => Len(auditLog) < MaxAudit
    /\ IF plan.error = None /\ DOMAIN plan.updates # {}
       THEN users' = [users EXCEPT ![user_id] = Some(DictUpdate(users[user_id][1], plan.updates))]
       ELSE users' = users
    /\ IF plan.error = None /\ plan.event # None
       THEN \E id \in FreshIds : auditLog' = AddAuditDoc(auditLog, id, plan.event[1])
       ELSE auditLog' = auditLog
    /\ last' = CallRecord(op, user_id, admin_id, args, reason, plan)
    /\ UNCHANGED permVars

\* routers/admin_users.py: the handler returns the service's result or raises
\* the HTTP error; the outcome leaves the process.
Respond ==
    /\ last # NoCall
    /\ last' = NoCall
    /\ UNCHANGED <<permVars, lifeVars>>

ChangeUserRole(user_id, new_role, admin_id, reason) ==
    Carry("change_user_role", user_id, admin_id, [new_role |-> new_role], reason,
          ChangeUserRolePlan(users[user_id], user_id, new_role, admin_id,
                             Some(EmailOf(admin_id)), reason))

DeactivateUser(user_id, admin_id, reason) ==
    Carry("deactivate_user", user_id, admin_id, EmptyDict, reason,
          DeactivateUserPlan(users[user_id], user_id, admin_id, Some(EmailOf(admin_id)), reason))

ReactivateUser(user_id, admin_id, reason) ==
    Carry("reactivate_user", user_id, admin_id, EmptyDict, reason,
          ReactivateUserPlan(users[user_id], user_id, admin_id, Some(EmailOf(admin_id)), reason))

(***************************************************************************)
(* validate_indian_mobile (app/core/validators.py) and update_user         *)
(***************************************************************************)
RemoveChars(s, drop) == SelectSeq(s, LAMBDA c : c \notin drop)
IsDigits(s) == s # <<>> /\ \A i \in 1..Len(s) : s[i] \in {"0", "1", "2", "3", "4", "5", "6", "7", "8", "9"}

\* validate_indian_mobile: [error: Optional[message], value: the normalized number]
ValidateIndianMobile(mobile) ==
    IF mobile = <<>> \/ Strip(mobile) = <<>> THEN [error |-> None, value |-> <<>>]
    ELSE LET cleaned == RemoveChars(Strip(mobile), {" ", "-", "(", ")", "+"})
             hasCode == Len(cleaned) = 12 /\ SubSeq(cleaned, 1, 2) = <<"9", "1">>
         IN IF ~hasCode /\ Len(cleaned) # 10
            THEN [error |-> Some("Mobile number must be 10 digits (with or without +91 country code)"),
                  value |-> <<>>]
            ELSE LET mobile_number == IF hasCode THEN SubSeq(cleaned, 3, 12) ELSE cleaned IN
                 IF mobile_number[1] \notin {"6", "7", "8", "9"}
                 THEN [error |-> Some("Indian mobile number must start with 6, 7, 8, or 9"),
                       value |-> <<>>]
                 ELSE IF Len(mobile_number) # 10 \/ ~IsDigits(mobile_number)
                 THEN [error |-> Some("Mobile number must be exactly 10 digits"), value |-> <<>>]
                 ELSE [error |-> None, value |-> <<"+", "9", "1">> \o mobile_number]

\* name.strip().split(None, 1): the first word and the rest of the text
RECURSIVE FirstWord(_)
FirstWord(s) == IF s = <<>> \/ IsSpace(Head(s)) THEN <<>> ELSE <<Head(s)>> \o FirstWord(Tail(s))
RestAfterFirstWord(s) == LStrip(SubSeq(s, Len(FirstWord(s)) + 1, Len(s)))
\* f"{first} {last}".strip()
FullName(first, lastn) == Strip(first \o <<" ">> \o lastn)

\* update_user lines 556-571: the event type and the audit reason
UpdateEventType(role_changing, status_changing, status) ==
    IF role_changing /\ status_changing THEN EVENT_USER_UPDATED
    ELSE IF role_changing THEN EVENT_USER_ROLE_CHANGED
    ELSE IF status_changing
         THEN (IF status = Some("inactive") THEN EVENT_USER_DEACTIVATED
                                             ELSE EVENT_USER_REACTIVATED)
    ELSE EVENT_USER_UPDATED

UpdateAuditReason(role_changing, status_changing, status, reason) ==
    LET audit_reason == IF Truthy(reason) THEN Strip(reason[1])
                        ELSE <<"User details updated by admin">>
    IN IF role_changing /\ status_changing THEN <<"Role and status changed: ">> \o audit_reason
       ELSE IF role_changing THEN <<"Role changed: ">> \o audit_reason
       ELSE IF status_changing
            THEN (IF status = Some("inactive") THEN <<"User deactivated: ">> \o audit_reason
                                                ELSE <<"User reactivated: ">> \o audit_reason)
       ELSE audit_reason

\* update_user lines 459-582, given the stored document (None: not found)
UpdateUserPlan(doc, user_id, admin_id, admin_email, name, mobile, role, status, reason) ==
    IF doc = None THEN Reject("User not found")
    ELSE
    LET user_data == doc[1]
        role_changing == role # None /\ role[1] # user_data.role
        status_changing == status # None /\ status # user_data.status
        \* name
        stripped == IF name = None THEN <<>> ELSE Strip(name[1])
        first_name == FirstWord(stripped)
        last_name == RestAfterFirstWord(stripped)
        name_changed == name # None
                        /\ (first_name # user_data.firstName \/ last_name # user_data.lastName)
        \* mobile
        old_mobile == user_data.mobile
        validated == IF Truthy(mobile) THEN ValidateIndianMobile(mobile[1])
                     ELSE [error |-> None, value |-> <<>>]
        mobile_normalized == IF Truthy(mobile) THEN Some(validated.value) ELSE None
        mobile_changed == mobile # None /\ mobile_normalized # old_mobile
        \* status
        old_status == StatusOr(user_data, "active")
        updates ==
            DictUpdate(DictUpdate(DictUpdate(DictUpdate(
                [updatedAt |-> Some(ServerTimestamp)],
                IF name_changed
                THEN [firstName |-> first_name, lastName |-> last_name] ELSE EmptyDict),
                IF mobile_changed THEN [mobile |-> mobile_normalized] ELSE EmptyDict),
                IF role_changing
                THEN [role |-> role[1], previousRole |-> Some(user_data.role),
                      roleChangedAt |-> Some(ServerTimestamp),
                      roleChangedBy |-> Some(admin_id)] ELSE EmptyDict),
                IF status_changing
                THEN [status |-> status, statusChangedAt |-> Some(ServerTimestamp),
                      statusChangedBy |-> Some(admin_id)] ELSE EmptyDict)
        changes ==
            DictUpdate(DictUpdate(DictUpdate(
                IF name_changed
                THEN [name |-> [old |-> FullName(user_data.firstName, user_data.lastName),
                                new |-> FullName(first_name, last_name)]] ELSE EmptyDict,
                IF mobile_changed
                THEN [mobile |-> [old |-> IF Truthy(old_mobile) THEN old_mobile ELSE None,
                                  new |-> mobile_normalized]] ELSE EmptyDict),
                IF role_changing
                THEN [role |-> [old |-> user_data.role, new |-> role[1]]] ELSE EmptyDict),
                IF status_changing
                THEN [status |-> [old |-> old_status, new |-> status[1]]] ELSE EmptyDict)
    IN
    IF (role_changing \/ status_changing) /\ ReasonTooShort(reason)
    THEN Reject("Reason is required (minimum 10 characters) when changing role or status")
    ELSE IF name # None /\ first_name = <<>> THEN Reject("First name is required")
    ELSE IF mobile # None /\ validated.error # None THEN Reject(validated.error[1])
    ELSE IF role_changing /\ role[1] \notin VALID_ROLES THEN Reject("Invalid role")
    ELSE IF role_changing /\ SelfRoleChange(user_id, admin_id)
         THEN Reject("Cannot change your own role")
    ELSE IF status_changing /\ status[1] \notin VALID_STATUSES THEN Reject("Invalid status")
    ELSE IF status_changing /\ status = Some("inactive")
            /\ user_data.role = "admin" /\ user_id # admin_id
         THEN Reject("Cannot deactivate another admin user")
    ELSE IF status_changing /\ status = Some("inactive") /\ user_id = admin_id
         THEN Reject("Cannot deactivate your own account")
    ELSE IF DOMAIN changes = {} THEN Accept(EmptyDict, None)
    ELSE Accept(updates,
                Some(AuditData(UpdateEventType(role_changing, status_changing, status),
                               admin_id, admin_email, Some(user_id), user_data.email,
                               Some(changes),
                               Some(UpdateAuditReason(role_changing, status_changing,
                                                      status, reason)),
                               None, ServerTimestamp)))

UpdateUser(user_id, admin_id, name, mobile, role, status, reason) ==
    Carry("update_user", user_id, admin_id,
          [name |-> name, mobile |-> mobile, role |-> role, status |-> status], reason,
          UpdateUserPlan(users[user_id], user_id, admin_id, Some(EmailOf(admin_id)),
                         name, mobile, role, status, reason))

\* The update_user requests the model draws from.
Request(name, mobile, role, status, reason) ==
    [name |-> name, mobile |-> mobile, role |-> role, status |-> status, reason |-> reason]
NameSame == Some(<<"A", " ", "L">>)
NameNew == Some(<<" ", "C", " ", " ", "D", " ">>)
NameBlank == Some(<<" ">>)
MobileEmpty == Some(<<>>)
MobileValid == Some(<<"9", "8", "7", "6", "5", "-", "4", "3", "2", "1", "0">>)
MobileInvalid == Some(<<"1", "2", "3">>)
UpdateRequests ==
    { Request(NameSame, None, None, None, None),
      Request(NameNew, None, None, None, None),
      Request(NameBlank, None, None, None, None),
      Request(None, MobileEmpty, None, None, None),
      Request(None, MobileValid, None, None, None),
      Request(None, MobileInvalid, None, None, None),
      Request(None, None, None, None, None),
      Request(None, None, Some("customer"), None, ReasonTenPadded),
      Request(None, None, Some("admin"), None, ReasonTenPadded),
      Request(None, None, Some("admin"), None, ReasonNinePadded),
      Request(None, None, None, Some("inactive"), ReasonTenPadded),
      Request(None, None, None, Some("inactive"), ReasonNone),
      Request(None, None, None, Some("active"), ReasonTenPadded),
      Request(None, None, None, Some("suspended"), ReasonTenPadded),
      Request(None, None, Some("admin"), Some("inactive"), ReasonTenPadded),
      Request(None, None, Some("root"), Some("banned"), ReasonTenPadded),
      Request(NameNew, MobileValid, Some("admin"), None, ReasonTenPadded),
      Request(NameNew, MobileEmpty, None, None, None),
      Request(NameNew, None, None, Some("inactive"), ReasonTenPadded),
      Request(NameNew, None, None, Some("inactive"), ReasonNinePadded) }

\* A user document as UserService.create_user writes it (status "active"); a
\* document migrated from an older database may lack the status key (None).
UserDoc(u, first, lastn, mobile, role, status) ==
    [email |-> Some(EmailOf(u)), firstName |-> first, lastName |-> lastn,
     mobile |-> mobile, role |-> role, status |-> status,
     previousRole |-> None, roleChangedAt |-> None, roleChangedBy |-> None,
     statusChangedAt |-> None, statusChangedBy |-> None, updatedAt |-> Some(<<0, 0>>)]

\* The second account: a customer (active, inactive, or a migrated document
\* without a status field) or another active admin.
SecondUsers == {<<"customer", Some("active")>>, <<"customer", Some("inactive")>>,
                <<"customer", None>>, <<"admin", Some("active")>>}

InitLife ==
    /\ permStore = [r \in PermRoles |-> None]
    /\ permCache = EmptyDict
    /\ cacheTimestamp = None
    /\ now = 1
    /\ micro = 0
    /\ ticks = 0
    /\ proc = EmptyDict
    /\ \E second \in SecondUsers :
         users = [u \in UserIds |->
                    CASE u = "u1" -> Some(UserDoc(u, <<"A">>, <<"L">>, Some(<<>>), "admin", Some("active")))
                      [] u = "u2" -> Some(UserDoc(u, <<"B">>, <<>>, Some(<<>>), second[1], second[2]))
                      [] OTHER -> None]
    /\ auditLog = <<>>
    /\ last = NoCall

NextLife ==
    \/ \E user_id \in UserIds, new_role \in RoleInputs, admin_id \in ActorIds, reason \in Reasons :
          ChangeUserRole(user_id, new_role, admin_id, reason)
    \/ \E user_id \in UserIds, admin_id \in ActorIds, reason \in {ReasonTenPadded} :
          DeactivateUser(user_id, admin_id, reason)
    \/ \E user_id \in UserIds, admin_id \in ActorIds, reason \in {ReasonNone} :
          ReactivateUser(user_id, admin_id, reason)
    \/ \E user_id \in UserIds, admin_id \in ActorIds, q \in UpdateRequests :
          UpdateUser(user_id, admin_id, q.name, q.mobile, q.role, q.status, q.reason)
    \/ Respond

SpecLife == InitLife /\ [][NextLife]_vars

(***************************************************************************)
(* Claims about the user lifecycle operations                              *)
(***************************************************************************)
\* Length of reason.strip(); an absent reason counts as empty.
TrimmedLength(reason) == IF reason = None THEN 0 ELSE Len(Strip(reason[1]))
NewestEvent == auditLog[Len(auditLog)].data
UserUnchanged == users[last.user_id] = last.before /\ ~last.wrote
AuditUnchanged == Len(auditLog) = last.audit_before

\* C5: change_user_role rejects, writing neither the user document nor an
\* audit event, whenever the reason is empty or shorter than 10 characters
\* after trimming (9 rejects); with exactly 10 trimmed characters the reason
\* guard passes: the call is not rejected for its reason.
C5_ReasonGuard ==
    last.op = "change_user_role" =>
        /\ TrimmedLength(last.reason) < 10 =>
              /\ last.error # None
              /\ UserUnchanged
              /\ AuditUnchanged
        /\ TrimmedLength(last.reason) = 10 =>
              last.error # Some("Reason must be at least 10 characters long")

\* A nine-letter reason with blanks around it was rejected for its length.
C5_Witness ==
    /\ last.op = "change_user_role"
    /\ last.reason # None
    /\ Len(last.reason[1]) > 10
    /\ TrimmedLength(last.reason) = 9
    /\ last.args.new_role \in VALID_ROLES
    /\ last.error = Some("Reason must be at least 10 characters long")

\* C6: every change_user_role call with user_id = admin_id rejects, and after
\* any sequence of change_user_role and update_user calls no account's role
\* has been changed by a request whose actor is that account.
C6_NoSelfRoleChange ==
    /\ (last.op = "change_user_role" /\ last.user_id = last.admin_id) =>
          /\ last.error # None
          /\ UserUnchanged
          /\ AuditUnchanged
    /\ (last.op \in {"change_user_role", "update_user"}
        /\ last.user_id = last.admin_id /\ last.before # None) =>
          users[last.user_id][1].role = last.before[1].role
    /\ \A u \in UserIds : users[u] # None => users[u][1].roleChangedBy # Some(u)
    /\ \A i \in 1..Len(auditLog) :
          (auditLog[i].data.changes # None /\ "role" \in DOMAIN auditLog[i].data.changes[1])
              => auditLog[i].data.targetId # Some(auditLog[i].data.actorId)

\* An account asked for a valid new role for itself, with a good reason, after
\* another account's role had been changed, and was refused.
C6_Witness ==
    /\ last.op = "change_user_role"
    /\ last.user_id = last.admin_id
    /\ last.before # None
    /\ last.args.new_role \in VALID_ROLES
    /\ last.args.new_role # last.before[1].role
    /\ TrimmedLength(last.reason) >= 10
    /\ last.error = Some("Cannot change your own role")
    /\ Len(auditLog) > 0
    /\ NewestEvent.eventType = EVENT_USER_ROLE_CHANGED

\* C7: deactivate_user rejects, leaving the status unchanged, when the
\* target's stored role is admin and user_id # admin_id; and it rejects when
\* user_id = admin_id, also when the target is an admin.
C7_DeactivateGuards ==
    (last.op = "deactivate_user" /\ last.before # None) =>
        /\ (last.before[1].role = "admin" /\ last.user_id # last.admin_id) =>
              /\ last.error = Some("Cannot deactivate another admin user")
              /\ users[last.user_id][1].status = last.before[1].status
              /\ UserUnchanged
              /\ AuditUnchanged
        /\ last.user_id = last.admin_id =>
              /\ last.error = Some("Cannot deactivate your own account")
              /\ users[last.user_id][1].status = last.before[1].status
              /\ UserUnchanged
              /\ AuditUnchanged

\* An active admin was the target of another account's deactivate_user.
C7_Witness ==
    /\ last.op = "deactivate_user"
    /\ last.before # None
    /\ last.before[1].role = "admin"
    /\ last.before[1].status = Some("active")
    /\ last.user_id # last.admin_id
    /\ last.error # None

\* C8: reactivate_user on a user who is not active sets the status to active
\* and logs one user.reactivated event; called again on the same user it
\* rejects ("already active"), changes nothing and adds no audit event.
C8_ReactivateOnce ==
    (last.op = "reactivate_user" /\ last.before # None) =>
        IF last.before[1].status = Some("active")
        THEN /\ last.error = Some("User is already active")
             /\ UserUnchanged
             /\ AuditUnchanged
        ELSE /\ last.error = None
             /\ users[last.user_id][1].status = Some("active")
             /\ Len(auditLog) = last.audit_before + 1
             /\ NewestEvent.eventType = EVENT_USER_REACTIVATED
             /\ NewestEvent.targetId = Some(last.user_id)
             /\ NewestEvent.changes # None
             /\ NewestEvent.changes[1].status.new = "active"

\* The second of two reactivate_user calls on one user: the newest audit event
\* is the first call's user.reactivated event for that user (reactivate_user
\* stores the caller's reason as given, here none), and the call was refused.
C8_Witness ==
    /\ last.op = "reactivate_user"
    /\ last.error = Some("User is already active")
    /\ Len(auditLog) = 1
    /\ NewestEvent.eventType = EVENT_USER_REACTIVATED
    /\ NewestEvent.targetId = Some(last.user_id)
    /\ NewestEvent.reason = None
    /\ last.before # None
    /\ last.before[1].statusChangedBy # None

\* C9: a change_user_role call that passes all guards (valid new role, reason
\* of at least 10 trimmed characters, actor other than the target, target
\* exists, new role differs from the current one) persists role = new role,
\* previousRole = the role held before and roleChangedBy = the actor, and
\* appends exactly one user.role_changed event with that actor, that target,
\* changes = {role: {old, new}} and the given reason.
C9_RoleChangeEffect ==
    (/\ last.op = "change_user_role"
     /\ last.args.new_role \in {"customer", "partner", "support", "admin"}
     /\ TrimmedLength(last.reason) >= 10
     /\ last.admin_id # last.user_id
     /\ last.before # None
     /\ last.before[1].role # last.args.new_role) =>
        /\ last.error = None
        /\ users[last.user_id][1].role = last.args.new_role
        /\ users[last.user_id][1].previousRole = Some(last.before[1].role)
        /\ users[last.user_id][1].roleChangedBy = Some(last.admin_id)
        /\ Len(auditLog) = last.audit_before + 1
        /\ NewestEvent.eventType = "user.role_changed"
        /\ NewestEvent.actorId = last.admin_id
        /\ NewestEvent.targetId = Some(last.user_id)
        /\ NewestEvent.changes
             = Some([role |-> [old |-> last.before[1].role, new |-> last.args.new_role]])
        /\ NewestEvent.reason = last.reason

\* A customer was made admin by the other account, as the second accepted change.
C9_Witness ==
    /\ last.op = "change_user_role"
    /\ last.error = None
    /\ last.before # None
    /\ last.before[1].role = "customer"
    /\ last.args.new_role = "admin"
    /\ Len(auditLog) = 2
    /\ NewestEvent.eventType = EVENT_USER_ROLE_CHANGED

(***************************************************************************)
(* Audit service: get_audit_logs and get_user_audit_history                *)
(***************************************************************************)
MaxEvents == 3
QueryLimitCap == 100
AuditIds == 1..MaxEvents
Min(a, b) == IF a < b THEN a ELSE b

\* datetime.isoformat() of a store timestamp <<seconds, microseconds>>: the
\* date, hour and minute are the same for all timestamps of a run; the seconds
\* take two digits, the fraction is left out when the microseconds are 0, and
\* the UTC offset follows.  A string is a sequence of characters (the common
\* prefix is one element).
Digit(n) == CASE n = 0 -> "0" [] n = 1 -> "1" [] n = 2 -> "2" [] n = 3 -> "3"
              [] n = 4 -> "4" [] n = 5 -> "5" [] n = 6 -> "6" [] n = 7 -> "7"
              [] n = 8 -> "8" [] n = 9 -> "9"
TwoDigits(n) == <<Digit((n \div 10) % 10), Digit(n % 10)>>
SixDigits(n) == <<Digit((n \div 100000) % 10), Digit((n \div 10000) % 10),
                  Digit((n \div 1000) % 10), Digit((n \div 100) % 10),
                  Digit((n \div 10) % 10), Digit(n % 10)>>
IsoFormat(ts) ==
    <<"2026-01-01T00:00:">> \o TwoDigits(ts[1])
        \o (IF ts[2] = 0 THEN <<>> ELSE <<".">> \o SixDigits(ts[2]))
        \o <<"+", "0", "0", ":", "0", "0">>

\* Python compares strings by code point.
CharCode(c) == CASE c = "+" -> 43 [] c = "." -> 46 [] c = ":" -> 58
                 [] c = "0" -> 48 [] c = "1" -> 49 [] c = "2" -> 50 [] c = "3" -> 51
                 [] c = "4" -> 52 [] c = "5" -> 53 [] c = "6" -> 54 [] c = "7" -> 55
                 [] c = "8" -> 56 [] c = "9" -> 57
RECURSIVE StrLess(_, _)
StrLess(a, b) ==
    IF b = <<>> THEN FALSE
    ELSE IF a = <<>> THEN TRUE
    ELSE IF Head(a) = Head(b) THEN StrLess(Tail(a), Tail(b))
    ELSE CharCode(Head(a)) < CharCode(Head(b))

\* The store's order of timestamps.
TsLess(a, b) == a[1] < b[1] \/ (a[1] = b[1] /\ a[2] < b[2])

MatchesFilters_AnyFilter(doc, event_type, actor_id, target_id, start_date, end_date) ==
    \/ TruthyId(event_type) /\ doc.data.eventType = event_type[1]
    \/ TruthyId(actor_id) /\ doc.data.actorId = actor_id[1]
    \/ TruthyId(target_id) /\ doc.data.targetId = target_id
    \/ start_date # None /\ ~TsLess(doc.data.timestamp, start_date[1])
    \/ end_date # None /\ ~TsLess(end_date[1], doc.data.timestamp)
    \/ ~(TruthyId(event_type) \/ TruthyId(actor_id) \/ TruthyId(target_id)
          \/ start_date # None \/ end_date # None)

\* get_audit_logs lines 171-181: each filter is applied only if its argument
\* is truthy; a document without the field does not match an equality filter.
MatchesFilters(doc, event_type, actor_id, target_id, start_date, end_date) ==
    /\ TruthyId(event_type) => doc.data.eventType = event_type[1]
    /\ TruthyId(actor_id) => doc.data.actorId = actor_id[1]
    /\ TruthyId(target_id) => doc.data.targetId = target_id
    /\ start_date # None => ~TsLess(doc.data.timestamp, start_date[1])
    /\ end_date # None => ~TsLess(end_date[1], doc.data.timestamp)

\* order_by("timestamp", DESCENDING): the store orders documents with equal
\* timestamps by document id, in the same direction.
ComesBefore(d, e) ==
    \/ TsLess(e.data.timestamp, d.data.timestamp)
    \/ (d.data.timestamp = e.data.timestamp /\ d.id > e.id)
RECURSIVE OrderByTimestampDesc(_)
OrderByTimestampDesc(docs) ==
    IF docs = {} THEN <<>>
    ELSE LET first == CHOOSE d \in docs : \A e \in docs \ {d} : ComesBefore(d, e)
         IN <<first>> \o OrderByTimestampDesc(docs \ {first})

\* query.limit(limit).offset(offset): skip `offset` documents, then take `limit`
Page(ordered, limit, offset) == SubSeq(ordered, offset + 1, Min(Len(ordered), offset + limit))

\* lines 189-198: doc.to_dict() with the id added and the timestamp as ISO string
LogDict(doc) == [id |-> doc.id, data |-> [doc.data EXCEPT !.timestamp = IsoFormat(@)]]

GetAuditLogs(limit, offset, event_type, actor_id, target_id, start_date, end_date) ==
    LET capped == Min(limit, QueryLimitCap)
        matching == { auditLog[i] : i \in { j \in 1..Len(auditLog) :
                        MatchesFilters(auditLog[j], event_type, actor_id, target_id,
                                       start_date, end_date) } }
        page == Page(OrderByTimestampDesc(matching), capped, offset)
    IN [i \in 1..Len(page) |-> LogDict(page[i])]

\* {log["id"]: log for log in logs}.values(): one entry per id, at the place of
\* the id's first occurrence (the entries of one id are equal)
UniqueById_KeepAll(logs) == logs
RECURSIVE UniqueById(_)
UniqueById(logs) ==
    IF logs = <<>> THEN <<>>
    ELSE LET rest == UniqueById(SubSeq(logs, 1, Len(logs) - 1))
             e == logs[Len(logs)]
         IN IF \E i \in 1..Len(rest) : rest[i].id = e.id THEN rest ELSE Append(rest, e)

\* sorted(..., key=timestamp string, reverse=True): descending and stable
RECURSIVE InsertDescending(_, _)
InsertDescending(sorted, e) ==
    IF sorted = <<>> THEN <<e>>
    ELSE IF StrLess(Head(sorted).data.timestamp, e.data.timestamp)
         THEN <<e>> \o sorted
         ELSE <<Head(sorted)>> \o InsertDescending(Tail(sorted), e)
RECURSIVE SortedByTimestampDesc(_)
SortedByTimestampDesc(logs) ==
    IF logs = <<>> THEN <<>>
    ELSE InsertDescending(SortedByTimestampDesc(SubSeq(logs, 1, Len(logs) - 1)),
                          logs[Len(logs)])

\* get_user_audit_history lines 227-245
GetUserAuditHistory(user_id, limit, include_as_actor, include_as_target) ==
    LET actor_logs == IF include_as_actor
                      THEN GetAuditLogs(limit, 0, None, Some(user_id), None, None, None)
                      ELSE <<>>
        target_logs == IF include_as_target
                       THEN GetAuditLogs(limit, 0, None, None, Some(user_id), None, None)
                       ELSE <<>>
        sorted_logs == SortedByTimestampDesc(UniqueById(actor_logs \o target_logs))
    IN SubSeq(sorted_logs, 1, Min(limit, Len(sorted_logs)))

\* The events and queries the model draws from.
AuditActors == {"u1", "u2"}
AuditTargets == {None, Some("u1"), Some("u2")}
HistoryUsers == {"u1"}
HistoryLimits == {1, 2}

\* log_event, called with an actor, an optional target, and optional changes
\* and reason; the call's arguments are kept beside the id it returned
LogEvent(event_type, actor_id, target_id, changes, reason) ==
    /\ last = NoCall
    /\ Len(auditLog) < MaxEvents
    /\ \E id \in AuditIds \ UsedIds :
         /\ auditLog' = AddAuditDoc(auditLog, id,
                           AuditData(event_type, actor_id, Some(EmailOf(actor_id)), target_id,
                                     IF target_id = None THEN None
                                     ELSE Some(EmailOf(target_id[1])),
                                     changes, reason, None, ServerTimestamp))
         /\ last' = [op |-> "log_event", id |-> id,
                     given |-> [event_type |-> event_type, actor_id |-> actor_id,
                                target_id |-> target_id, changes |-> changes,
                                reason |-> reason]]
    /\ UNCHANGED <<permVars, users>>

GetUserAuditHistoryCall(user_id, limit, include_as_actor, include_as_target) ==
    /\ last = NoCall
    /\ last' = [op |-> "get_user_audit_history", user_id |-> user_id, limit |-> limit,
                include_as_actor |-> include_as_actor,
                include_as_target |-> include_as_target,
                result |-> GetUserAuditHistory(user_id, limit, include_as_actor,
                                               include_as_target)]
    /\ UNCHANGED <<permVars, lifeVars>>

\* The store's clock moves on by half a second.
AdvanceClock ==
    /\ last = NoCall
    /\ ticks < MaxTicks
    /\ ticks' = ticks + 1
    /\ IF micro = 0 THEN now' = now /\ micro' = 500000
                    ELSE now' = now + 1 /\ micro' = 0
    /\ UNCHANGED <<permStore, permCache, cacheTimestamp, proc, users, auditLog, last>>

InitAudit ==
    /\ permStore = [r \in PermRoles |-> None]
    /\ permCache = EmptyDict
    /\ cacheTimestamp = None
    /\ now = 9
    /\ micro = 0
    /\ ticks = 0
    /\ proc = EmptyDict
    /\ users = EmptyDict
    /\ auditLog = <<>>
    /\ last = NoCall

NextAudit ==
    \/ \E actor_id \in AuditActors, target_id \in AuditTargets :
          LogEvent(EVENT_USER_UPDATED, actor_id, target_id, None, None)
    \/ \E user_id \in HistoryUsers, limit \in HistoryLimits,
          include_as_actor \in BOOLEAN, include_as_target \in BOOLEAN :
          GetUserAuditHistoryCall(user_id, limit, include_as_actor, include_as_target)
    \/ AdvanceClock
    \/ Respond

SpecAudit == InitAudit /\ [][NextAudit]_vars

\* The stored events a get_user_audit_history call is about, and the stored
\* event a returned entry stands for.
RelatedEvents ==
    { i \in 1..Len(auditLog) :
        \/ last.include_as_actor /\ auditLog[i].data.actorId = last.user_id
        \/ last.include_as_target /\ auditLog[i].data.targetId = Some(last.user_id) }
StoredAt(id) == CHOOSE i \in 1..Len(auditLog) : auditLog[i].id = id

----------------------------------------------------------------------------
\* get_audit_log_by_id (audit_service.py lines 107-137): None when no document
\* has the id, else the document's fields with its id and the timestamp as an
\* ISO string.
GetAuditLogById(log_id) ==
    IF \E i \in 1..Len(auditLog) : auditLog[i].id = log_id
    THEN Some(LogDict(auditLog[CHOOSE i \in 1..Len(auditLog) : auditLog[i].id = log_id]))
    ELSE None

GetAuditLogByIdCall(log_id) ==
    /\ last = NoCall
    /\ last' = [op |-> "get_audit_log_by_id", log_id |-> log_id,
                result |-> GetAuditLogById(log_id)]
    /\ UNCHANGED <<permVars, lifeVars>>

\* The changes and reason log_event is called with: not supplied, supplied but
\* empty ({} and ""), and a role change with a reason.
ChangesNone == None
ChangesEmpty == Some(EmptyDict)
ChangesRole == Some([role |-> [old |-> "customer", new |-> "admin"]])
LoggedInputs ==
    { <<ChangesNone, ReasonNone>>, <<ChangesRole, ReasonTenPadded>>,
      <<ChangesRole, ReasonNone>>, <<ChangesEmpty, ReasonEmpty>> }
RoundTripTargets == {None, Some("u2")}

NextRoundTrip ==
    \/ \E target_id \in RoundTripTargets, given \in LoggedInputs :
          LogEvent(EVENT_USER_ROLE_CHANGED, "u1", target_id, given[1], given[2])
    \/ \E log_id \in AuditIds : GetAuditLogByIdCall(log_id)
    \/ AdvanceClock
    \/ Respond

SpecRoundTrip == InitAudit /\ [][NextRoundTrip]_vars

\* The values a record read back by id carries, beside those log_event was given
ReadBackMatches(record, given) ==
    /\ record.data.eventType = given.event_type
    /\ record.data.actorId = given.actor_id
    /\ record.data.targetId = given.target_id
    /\ record.data.changes = given.changes
    /\ record.data.reason = given.reason
WrittenInTimestampOrder ==
    \A i, j \in 1..Len(auditLog) :
        i < j => ~TsLess(auditLog[j].data.timestamp, auditLog[i].data.timestamp)

\* C11: a record written by log_event with a given changes map and reason is
\* returned by get_audit_log_by_id, for the id log_event returned, with the
\* same event type, actor, target, changes and reason; and the timestamps of
\* the stored events never decrease in write order.
C11_RoundTrip ==
    /\ last.op = "log_event" =>
          /\ GetAuditLogById(last.id) # None
          /\ ReadBackMatches(GetAuditLogById(last.id)[1], last.given)
    /\ WrittenInTimestampOrder

\* C11 as the code has it: the record read back for the id log_event returned
\* has the event type, actor and target the call was given; it has the given
\* changes map and reason when they are non-empty, and has no changes or no
\* reason field when the call was given none or an empty one; the timestamps
\* of the stored events never decrease in write order.
C11_RoundTripEmptyAsAbsent ==
    /\ last.op = "log_event" =>
          /\ GetAuditLogById(last.id) # None
          /\ ReadBackMatches(GetAuditLogById(last.id)[1],
                 [last.given EXCEPT
                    !.changes = IF @ = ChangesEmpty THEN None ELSE @,
                    !.reason = IF @ = ReasonEmpty THEN None ELSE @])
    /\ WrittenInTimestampOrder

\* A role change with a reason was logged after an earlier event of an
\* earlier time, and is read back with both
C11_Witness ==
    /\ last.op = "log_event"
    /\ last.given.changes = ChangesRole
    /\ last.given.reason = ReasonTenPadded
    /\ Len(auditLog) = 2
    /\ auditLog[2].id = last.id
    /\ TsLess(auditLog[1].data.timestamp, auditLog[2].data.timestamp)
    /\ GetAuditLogById(last.id)[1].data.changes = ChangesRole

----------------------------------------------------------------------------
(***************************************************************************)
(* The lifecycle operations when the audit insert does not happen.         *)
(* Each operation updates the user document (doc_ref.update) and then      *)
(* calls log_event, two separate store calls with no transaction around    *)
(* them.  log_event has no exception handler, so an exception of the       *)
(* store's add() leaves the operation after the user write; a process      *)
(* that stops between the two calls leaves the same stored state and gives *)
(* no response.                                                            *)
(***************************************************************************)
StoreUnavailable == "ServiceUnavailable"
ProcessStopped == "process stopped"
Faults == {StoreUnavailable, ProcessStopped}

\* The routers' mapping of a call's outcome (routers/admin_users.py):
\* ValueError -> 400, any other exception -> 500, else the default 200.
\* A stopped process sends nothing (0).
HttpStatus_AllBadRequest(error) ==
    IF error = None THEN 200 ELSE IF error[1] = ProcessStopped THEN 0 ELSE 400
HttpStatus(error) ==
    IF error = None THEN 200
    ELSE IF error[1] = ProcessStopped THEN 0
    ELSE IF error[1] = StoreUnavailable THEN 500
    ELSE 400

\* An accepted call whose user write is applied and whose audit insert is not
CarryFault(op, user_id, admin_id, args, reason, plan, fault) ==
    /\ last = NoCall
    /\ plan.error = None
    /\ plan.event # None
    /\ users' = [users EXCEPT ![user_id] = Some(DictUpdate(users[user_id][1], plan.updates))]
    /\ auditLog' = auditLog
    /\ last' = [CallRecord(op, user_id, admin_id, args, reason, plan) EXCEPT !.error = Some(fault)]
    /\ UNCHANGED permVars

ChangeUserRoleFault(user_id, new_role, admin_id, reason, fault) ==
    CarryFault("change_user_role", user_id, admin_id, [new_role |-> new_role], reason,
               ChangeUserRolePlan(users[user_id], user_id, new_role, admin_id,
                                  Some(EmailOf(admin_id)), reason), fault)

DeactivateUserFault(user_id, admin_id, reason, fault) ==
    CarryFault("deactivate_user", user_id, admin_id, EmptyDict, reason,
               DeactivateUserPlan(users[user_id], user_id, admin_id, Some(EmailOf(admin_id)), reason),
               fault)

ReactivateUserFault(user_id, admin_id, reason, fault) ==
    CarryFault("reactivate_user", user_id, admin_id, EmptyDict, reason,
               ReactivateUserPlan(users[user_id], user_id, admin_id, Some(EmailOf(admin_id)), reason),
               fault)

UpdateUserFault(user_id, admin_id, name, mobile, role, status, reason, fault) ==
    CarryFault("update_user", user_id, admin_id,
               [name |-> name, mobile |-> mobile, role |-> role, status |-> status], reason,
               UpdateUserPlan(users[user_id], user_id, admin_id, Some(EmailOf(admin_id)),
                              name, mobile, role, status, reason), fault)

\* The calls drawn when the audit insert may fail: one admin acting on the
\* other accounts.
FaultActors == {"u1"}
FaultRoles == {"customer", "admin"}
FaultRequests ==
    { Request(NameNew, None, None, None, None),
      Request(None, None, Some("admin"), None, ReasonTenPadded),
      Request(None, None, None, Some("inactive"), ReasonTenPadded),
      Request(None, None, None, Some("active"), ReasonTenPadded),
      Request(None, None, Some("root"), None, ReasonTenPadded) }

NextLifeFault ==
    \/ \E user_id \in UserIds, new_role \in FaultRoles, admin_id \in FaultActors :
          ChangeUserRole(user_id, new_role, admin_id, ReasonTenPadded)
    \/ \E user_id \in UserIds, admin_id \in FaultActors :
          DeactivateUser(user_id, admin_id, ReasonTenPadded)
    \/ \E user_id \in UserIds, admin_id \in FaultActors :
          ReactivateUser(user_id, admin_id, ReasonNone)
    \/ \E user_id \in UserIds, admin_id \in FaultActors, q \in FaultRequests :
          UpdateUser(user_id, admin_id, q.name, q.mobile, q.role, q.status, q.reason)
    \/ \E user_id \in UserIds, new_role \in FaultRoles, admin_id \in FaultActors, fault \in Faults :
          ChangeUserRoleFault(user_id, new_role, admin_id, ReasonTenPadded, fault)
    \/ \E user_id \in UserIds, admin_id \in FaultActors, fault \in Faults :
          DeactivateUserFault(user_id, admin_id, ReasonTenPadded, fault)
    \/ \E user_id \in UserIds, admin_id \in FaultActors, fault \in Faults :
          ReactivateUserFault(user_id, admin_id, ReasonNone, fault)
    \/ \E user_id \in UserIds, admin_id \in FaultActors, q \in FaultRequests, fault \in Faults :
          UpdateUserFault(user_id, admin_id, q.name, q.mobile, q.role, q.status, q.reason, fault)
    \/ Respond

SpecLifeFault == InitLife /\ [][NextLifeFault]_vars

LifecycleOps == {"change_user_role", "deactivate_user", "reactivate_user", "update_user"}
RoleOrStatusChanged ==
    /\ last.before # None
    /\ users[last.user_id] # None
    /\ \/ users[last.user_id][1].role # last.before[1].role
       \/ users[last.user_id][1].status # last.before[1].status

\* C12: every persisted role or status change has exactly one matching audit
\* event: after any lifecycle call (one whose audit insert failed or whose
\* process stopped between the user write and the insert included), if the
\* stored role or status differs from the one before the call then the call
\* added exactly one audit event, and that event names the user as target.
C12_ChangePairedWithEvent ==
    (last.op \in LifecycleOps /\ RoleOrStatusChanged) =>
        /\ Len(auditLog) = last.audit_before + 1
        /\ NewestEvent.targetId = Some(last.user_id)
        /\ NewestEvent.actorId = last.admin_id

\* The same pairing for the calls that returned a result
C12_PairedWhenReturned ==
    (last.op \in LifecycleOps /\ RoleOrStatusChanged /\ last.error = None) =>
        /\ Len(auditLog) = last.audit_before + 1
        /\ NewestEvent.targetId = Some(last.user_id)
        /\ NewestEvent.actorId = last.admin_id

\* C13: a lifecycle call rejected by any guard writes nothing: the target
\* user document is the same in every field as before the call and no audit
\* event is added.  For update_user this covers the whole request: a valid
\* name change is not persisted when another requested field fails its guard.
C13_RejectedWritesNothing ==
    (last.op \in LifecycleOps /\ last.error # None) =>
        /\ users[last.user_id] = last.before
        /\ ~last.wrote
        /\ Len(auditLog) = last.audit_before

\* update_user asked for a new name and the deactivation of another admin:
\* rejected after the name passed its guard, and the stored name is the old one.
C13_Witness ==
    /\ last.op = "update_user"
    /\ last.args.name = NameNew
    /\ last.args.status = Some("inactive")
    /\ last.error = Some("Cannot deactivate another admin user")
    /\ last.before # None
    /\ users[last.user_id][1].firstName # FirstWord(Strip(NameNew[1]))

\* C14: no account whose role is admin has its role changed to a non-admin
\* role by a call whose actor is a different account: when the target was an
\* admin before a lifecycle call made by another account, it is an admin after.
C14_NoAdminDemotedByOther ==
    (/\ last.op \in LifecycleOps
     /\ last.before # None
     /\ last.before[1].role = "admin"
     /\ last.admin_id # last.user_id) =>
        users[last.user_id][1].role = "admin"

\* The demotions of an admin the operations do refuse: those the account asks
\* for itself.
C14_NoSelfDemotion ==
    (/\ last.op \in LifecycleOps
     /\ last.before # None
     /\ last.before[1].role = "admin"
     /\ last.admin_id = last.user_id) =>
        users[last.user_id][1].role = "admin"

\* The supplied fields of an update_user call that leave the stored value as
\* it was: a name whose first word and rest are the stored first and last
\* name, a mobile whose normalized form is the stored mobile (an empty mobile
\* for a user whose stored mobile is empty or absent), the stored role, the
\* stored status.
NameKeeps(name, user_data) ==
    name = None \/ (/\ FirstWord(Strip(name[1])) = user_data.firstName
                    /\ RestAfterFirstWord(Strip(name[1])) = user_data.lastName)
MobileKeeps(mobile, user_data) ==
    \/ mobile = None
    \/ /\ Truthy(mobile)
       /\ ValidateIndianMobile(mobile[1]).error = None
       /\ Some(ValidateIndianMobile(mobile[1]).value) = user_data.mobile
    \/ /\ ~Truthy(mobile)
       /\ ~Truthy(user_data.mobile)
RoleKeeps(role, user_data) == role = None \/ role[1] = user_data.role
StatusKeeps(status, user_data) == status = None \/ status = user_data.status
AllFieldsKeep ==
    /\ last.op = "update_user"
    /\ last.before # None
    /\ NameKeeps(last.args.name, last.before[1])
    /\ MobileKeeps(last.args.mobile, last.before[1])
    /\ RoleKeeps(last.args.role, last.before[1])
    /\ StatusKeeps(last.args.status, last.before[1])

\* C15: an update_user call in which every supplied field leaves the stored
\* value as it was (an empty mobile for a user who has none included) is a
\* no-op: it returns without error, the user document is not written and no
\* audit event is added.
C15_UnchangedFieldsNoOp ==
    AllFieldsKeep =>
        /\ last.error = None
        /\ UserUnchanged
        /\ AuditUnchanged

\* The same no-op for the calls that do not supply an empty mobile
C15_NoOpUnlessEmptyMobile ==
    (AllFieldsKeep /\ (last.args.mobile = None \/ Truthy(last.args.mobile))) =>
        /\ last.error = None
        /\ UserUnchanged
        /\ AuditUnchanged

\* An update_user call that returned a result and added an audit record
UpdateLogged ==
    /\ last.op = "update_user"
    /\ last.error = None
    /\ Len(auditLog) = last.audit_before + 1
StoredRoleChanged == users[last.user_id][1].role # last.before[1].role
StoredStatusChanged == users[last.user_id][1].status # last.before[1].status
SpecificEventTypes == {EVENT_USER_ROLE_CHANGED, EVENT_USER_DEACTIVATED, EVENT_USER_REACTIVATED}

\* C16: the event type of the audit record of an accepted update_user follows
\* from the fields that changed: user.updated if only name and/or mobile
\* changed; one of user.role_changed, user.deactivated, user.reactivated, and
\* never user.updated, if the role and/or the status changed.
C16_EventTypeByChange ==
    UpdateLogged =>
        IF StoredRoleChanged \/ StoredStatusChanged
        THEN NewestEvent.eventType \in SpecificEventTypes
        ELSE NewestEvent.eventType = EVENT_USER_UPDATED

\* The same rule for the calls that do not change role and status together
C16_EventTypeUnlessBoth ==
    (UpdateLogged /\ ~(StoredRoleChanged /\ StoredStatusChanged)) =>
        IF StoredRoleChanged THEN NewestEvent.eventType = EVENT_USER_ROLE_CHANGED
        ELSE IF StoredStatusChanged
        THEN NewestEvent.eventType =
                (IF users[last.user_id][1].status = Some("inactive")
                 THEN EVENT_USER_DEACTIVATED ELSE EVENT_USER_REACTIVATED)
        ELSE NewestEvent.eventType = EVENT_USER_UPDATED

\* The value of a field among name, mobile, role, status in a stored user
\* document.  A name is the stored first and last name joined by a blank and
\* stripped; an empty or absent mobile is no mobile; a document without a
\* status counts as active (user_data.get("status", "active")).
NoMobileAsNone(mobile) == IF Truthy(mobile) THEN mobile ELSE None
StoredField(user_data, field) ==
    CASE field = "name" -> FullName(user_data.firstName, user_data.lastName)
      [] field = "mobile" -> NoMobileAsNone(user_data.mobile)
      [] field = "role" -> user_data.role
      [] field = "status" -> StatusOr(user_data, "active")
Reported(field, value) == IF field = "mobile" THEN NoMobileAsNone(value) ELSE value
ChangedFields ==
    { field \in {"name", "mobile", "role", "status"} :
        StoredField(users[last.user_id][1], field) # StoredField(last.before[1], field) }
ChangesMapExact ==
    /\ Len(auditLog) = last.audit_before + 1
    /\ NewestEvent.changes # None
    /\ DOMAIN NewestEvent.changes[1] = ChangedFields
    /\ \A field \in ChangedFields :
          /\ Reported(field, NewestEvent.changes[1][field].old)
                = StoredField(last.before[1], field)
          /\ Reported(field, NewestEvent.changes[1][field].new)
                = StoredField(users[last.user_id][1], field)

\* C17: an accepted update_user call that changes at least one field writes
\* exactly one audit record; the keys of the record's changes map are exactly
\* the fields among name, mobile, role, status whose stored value the call
\* changed, each with old = the value before the call and new = the value
\* after it.
C17_ChangesMapExact ==
    (/\ last.op = "update_user"
     /\ last.error = None
     /\ last.before # None
     /\ ChangedFields # {}) =>
        ChangesMapExact

\* The same for the calls that do not supply an empty mobile
C17_ExactUnlessEmptyMobile ==
    (/\ last.op = "update_user"
     /\ last.error = None
     /\ last.before # None
     /\ ChangedFields # {}
     /\ (last.args.mobile = None \/ Truthy(last.args.mobile))) =>
        ChangesMapExact

\* C18: when the audit insert fails after the user document was updated, the
\* operation does not return success: the caller gets a 500-class response,
\* not the 400-class one of a guard violation; the user document keeps the
\* change (no rollback) and the audit log has no new event.
C18_AuditFailureSurfaces ==
    (last.op \in LifecycleOps /\ last.error = Some(StoreUnavailable)) =>
        /\ HttpStatus(last.error) = 500
        /\ HttpStatus(last.error) # 400
        /\ last.wrote
        /\ users[last.user_id] # last.before
        /\ Len(auditLog) = last.audit_before

\* change_user_role stored the new role, the audit insert failed
C18_Witness ==
    /\ last.op = "change_user_role"
    /\ last.error = Some(StoreUnavailable)
    /\ last.before[1].role = "customer"
    /\ users[last.user_id][1].role = "admin"
    /\ auditLog = <<>>

----------------------------------------------------------------------------
(***************************************************************************)
(* get_audit_logs over logs of a few events and over a log longer than     *)
(* the query's cap of 100                                                  *)
(***************************************************************************)
GetAuditLogsCall(limit, offset, event_type, actor_id, target_id, start_date, end_date) ==
    /\ last = NoCall
    /\ last' = [op |-> "get_audit_logs", limit |-> limit, offset |-> offset,
                event_type |-> event_type, actor_id |-> actor_id, target_id |-> target_id,
                start_date |-> start_date, end_date |-> end_date,
                result |-> GetAuditLogs(limit, offset, event_type, actor_id, target_id,
                                        start_date, end_date)]
    /\ UNCHANGED <<permVars, lifeVars>>

\* A log written before the run: LargeLogSize role changes by u1 on u2, twelve
\* to the second, with document ids of their own.
LargeLogSize == 102
LargeLog ==
    [i \in 1..LargeLogSize |->
        [id |-> MaxEvents + i,
         data |-> AuditData(EVENT_USER_ROLE_CHANGED, "u1", Some(EmailOf("u1")), Some("u2"),
                            Some(EmailOf("u2")), ChangesRole, ReasonTenPadded, None,
                            <<i \div 12, 0>>)]]

\* The events logged during the run and the queries made
QueryEvents ==
    { <<EVENT_USER_UPDATED, "u1", None>>, <<EVENT_USER_ROLE_CHANGED, "u1", Some("u2")>>,
      <<EVENT_USER_ROLE_CHANGED, "u2", Some("u2")>> }
QueryLimits == {1, QueryLimitCap + 1}
QueryOffsets == {0, 1}
\* <<event_type, actor_id, target_id, start_date, end_date>>: no filter, an
\* empty one, each equality filter alone, date bounds, and combinations
QueryFilters ==
    { <<None, None, None, None, None>>,
      <<Some(""), None, None, None, None>>,
      <<Some(EVENT_USER_ROLE_CHANGED), None, None, None, None>>,
      <<None, Some("u1"), None, None, None>>,
      <<None, None, Some("u2"), None, None>>,
      <<None, None, None, Some(<<9, 500000>>), None>>,
      <<Some(EVENT_USER_ROLE_CHANGED), Some("u1"), None, None, Some(<<9, 500000>>)>>,
      <<Some(EVENT_USER_ROLE_CHANGED), Some("u1"), Some("u2"), None, None>>,
      <<None, Some("u1"), None, Some(<<9, 500000>>), Some(<<9, 500000>>)>> }

InitQuery ==
    /\ permStore = [r \in PermRoles |-> None]
    /\ permCache = EmptyDict
    /\ cacheTimestamp = None
    /\ now = 9
    /\ micro = 0
    /\ ticks = 0
    /\ proc = EmptyDict
    /\ users = EmptyDict
    /\ auditLog \in {<<>>, LargeLog}
    /\ last = NoCall

NextQuery ==
    \/ \E e \in QueryEvents : LogEvent(e[1], e[2], e[3], None, None)
    \/ \E limit \in QueryLimits, offset \in QueryOffsets, f \in QueryFilters :
          GetAuditLogsCall(limit, offset, f[1], f[2], f[3], f[4], f[5])
    \/ AdvanceClock
    \/ Respond

SpecQuery == InitQuery /\ [][NextQuery]_vars

\* The stored events that satisfy every filter the query supplies (a filter
\* that is None or empty is not supplied)
Satisfying ==
    { i \in 1..Len(auditLog) :
        /\ (last.event_type \notin {None, Some("")}) =>
              auditLog[i].data.eventType = last.event_type[1]
        /\ (last.actor_id \notin {None, Some("")}) =>
              auditLog[i].data.actorId = last.actor_id[1]
        /\ (last.target_id \notin {None, Some("")}) =>
              auditLog[i].data.targetId = last.target_id
        /\ last.start_date # None =>
              ~TsLess(auditLog[i].data.timestamp, last.start_date[1])
        /\ last.end_date # None =>
              ~TsLess(last.end_date[1], auditLog[i].data.timestamp) }
Returned == { i \in 1..Len(auditLog) : \E k \in 1..Len(last.result) : last.result[k].id = auditLog[i].id }
Omitted == Satisfying \ Returned
NewerThanSome(i, returned) ==
    \E j \in returned : TsLess(auditLog[j].data.timestamp, auditLog[i].data.timestamp)
OlderThanSome(i, returned) ==
    \E j \in returned : TsLess(auditLog[i].data.timestamp, auditLog[j].data.timestamp)
NewerThanSomeReturned(i) == NewerThanSome(i, Returned)
OlderThanSomeReturned(i) == OlderThanSome(i, Returned)

\* C19: get_audit_logs returns only records that satisfy every supplied
\* filter, each once and as stored, ordered by timestamp descending; it skips
\* the first `offset` matches and returns at most min(limit, 100) records; no
\* matching record that lies within the requested page is left out: the
\* result has min(min(limit, 100), matches - offset) records, at most
\* `offset` omitted matches are newer than a returned record, and none is
\* both newer than one returned record and older than another.
C19_GetAuditLogsPage ==
    last.op = "get_audit_logs" =>
        LET satisfying == Satisfying
            returned == Returned
            omitted == satisfying \ returned
            capped == Min(last.limit, 100)
        IN
        /\ \A k \in 1..Len(last.result) :
              \E i \in satisfying : last.result[k] = LogDict(auditLog[i])
        /\ \A k \in 1..(Len(last.result) - 1) :
              ~StrLess(last.result[k].data.timestamp, last.result[k + 1].data.timestamp)
        /\ Cardinality(returned) = Len(last.result)
        /\ Len(last.result) <= capped
        /\ Len(last.result) =
              Min(capped, IF Cardinality(satisfying) > last.offset
                          THEN Cardinality(satisfying) - last.offset ELSE 0)
        /\ Cardinality({ i \in omitted : NewerThanSome(i, returned) }) <= last.offset
        /\ \A i \in omitted : ~(NewerThanSome(i, returned) /\ OlderThanSome(i, returned))
        /\ Len(last.result) < capped => \A i \in omitted : ~OlderThanSome(i, returned)

\* A query with limit 101, offset 1 and three filters on the log of more than
\* 100 events, all of them matching: the newest match is skipped and 100 of
\* the 101 others are returned.
C19_Witness ==
    /\ last.op = "get_audit_logs"
    /\ last.limit > 100 /\ last.offset = 1
    /\ last.event_type = Some(EVENT_USER_ROLE_CHANGED)
    /\ last.actor_id = Some("u1")
    /\ last.end_date # None
    /\ Cardinality(Satisfying) > 101
    /\ Len(last.result) = 100
    /\ \E i \in Omitted : NewerThanSomeReturned(i)
    /\ \E i \in Omitted : OlderThanSomeReturned(i)

\* A query with two filters on a log of three events, one of which does not
\* match: one match is skipped and the other returned.
C19_WitnessFiltered ==
    /\ last.op = "get_audit_logs"
    /\ last.limit = 1 /\ last.offset = 1
    /\ last.event_type = Some(EVENT_USER_ROLE_CHANGED)
    /\ last.actor_id = Some("u1")
    /\ Len(auditLog) = 3
    /\ Cardinality(Satisfying) = 2
    /\ Len(last.result) = 1
    /\ \E i \in Omitted : NewerThanSomeReturned(i)

----------------------------------------------------------------------------
\* A call on a user that does not exist, which no guard on the request
\* itself (role, reason, self-change) stops before the user is looked up
MissingUserCall ==
    /\ last.op \in LifecycleOps
    /\ last.before = None
    /\ last.error \notin {Some("Invalid role"), Some("Cannot change your own role"),
                          Some("Reason must be at least 10 characters long")}

\* C20: when the target user does not exist, change_user_role,
\* deactivate_user, reactivate_user and update_user fail with a not-found
\* outcome the caller can tell apart from a validation error (HTTP 404, not
\* the 400 of a guard violation), and write nothing.
C20_NotFoundIs404 ==
    MissingUserCall =>
        /\ last.error = Some("User not found")
        /\ HttpStatus(last.error) = 404
        /\ users[last.user_id] = None
        /\ ~last.wrote
        /\ Len(auditLog) = last.audit_before

\* What the operations do for a missing user: they fail with the status of a
\* guard violation and write nothing.
C20_NotFoundIs400 ==
    MissingUserCall =>
        /\ last.error = Some("User not found")
        /\ HttpStatus(last.error) = 400
        /\ users[last.user_id] = None
        /\ ~last.wrote
        /\ Len(auditLog) = last.audit_before

----------------------------------------------------------------------------
(***************************************************************************)
(* check_permission when the store read fails.  get_role_permissions has   *)
(* no exception handler around doc_ref.get() (line 46) and                 *)
(* check_permission has none around its call (line 78): the exception      *)
(* leaves both before the cache update of lines 52-54, and                 *)
(* check_permission returns no value.                                      *)
(***************************************************************************)
\* The outcome of check_permission when doc_ref.get() raises: the value
\* returned (None: no value, the exception propagates) and the cache and
\* timestamp it leaves.
FailedReadOutcome_FailOpen(cache, ts) ==
    [returned |-> Some(TRUE), raised |-> None, cache |-> cache, ts |-> ts]
FailedReadOutcome(cache, ts) ==
    [returned |-> None, raised |-> Some(StoreUnavailable), cache |-> cache, ts |-> ts]

CheckPermissionReadFails(role, resource, action) ==
    LET outcome == FailedReadOutcome(permCache, cacheTimestamp) IN
    /\ AllIdle
    /\ ~CacheHit(permCache, cacheTimestamp, now, role)
    /\ permCache' = outcome.cache
    /\ cacheTimestamp' = outcome.ts
    /\ last' = [op |-> "check_permission", role |-> role, resource |-> resource,
                action |-> action, read_failed |-> TRUE,
                returned |-> outcome.returned, raised |-> outcome.raised,
                cache_before |-> permCache, timestamp_before |-> cacheTimestamp]
    /\ UNCHANGED <<permStore, now, micro, ticks, proc, users, auditLog>>

NextPermFault ==
    \/ \E role \in PermRoles, resource \in Resources, action \in Actions :
          CheckPermission(role, resource, action)
    \/ \E role \in PermRoles, resource \in Resources, action \in Actions :
          CheckPermissionReadFails(role, resource, action)
    \/ \E role \in PermRoles, resources \in ResourcesChoices :
          CreateRolePermissions(role, "policy", resources)
    \/ InvalidateCache
    \/ \E d \in TickSteps : Tick(d)

SpecPermFault == InitPerm /\ [][NextPermFault]_vars

ReadFailed == last.op = "check_permission" /\ "read_failed" \in DOMAIN last

\* C21: when the store read fails during check_permission's lookup, the
\* outcome is never true (the call returns no value: the store's exception
\* propagates), and the failed read inserts nothing into the cache: cache
\* and shared timestamp are as before the call.
C21_ReadFailureNeverGrants ==
    ReadFailed =>
        /\ last.returned # Some(TRUE)
        /\ last.raised # None
        /\ permCache = last.cache_before
        /\ cacheTimestamp = last.timestamp_before

\* The read failed for a role whose stored document grants the action, while
\* the cache held an expired copy of it
C21_Witness ==
    /\ ReadFailed
    /\ DecidePermission(permStore[last.role], last.resource, last.action)
    /\ last.role \in DOMAIN permCache
    /\ cacheTimestamp # None
    /\ last.returned = None

----------------------------------------------------------------------------
\* What an update_user call asks to change, against the stored document
AsksRoleChange ==
    last.args.role # None /\ last.args.role[1] # last.before[1].role
AsksStatusChange ==
    last.args.status # None /\ last.args.status # last.before[1].status

\* C22: update_user applies the guards of the standalone operations to each
\* changed field.  If role or status changes, a reason that is empty or
\* shorter than 10 trimmed characters rejects; a role change on oneself
\* rejects; a status change to inactive rejects when the target is an admin
\* other than the actor and when the target is the actor; a new role outside
\* the valid roles or a new status outside the valid statuses rejects.  When
\* neither role nor status changes, the call is not rejected for its reason.
C22_UpdateUserGuards ==
    (last.op = "update_user" /\ last.before # None) =>
        /\ ((AsksRoleChange \/ AsksStatusChange) /\ TrimmedLength(last.reason) < 10)
              => last.error # None
        /\ (AsksRoleChange /\ last.user_id = last.admin_id) => last.error # None
        /\ (/\ AsksStatusChange
            /\ last.args.status = Some("inactive")
            /\ last.before[1].role = "admin"
            /\ last.user_id # last.admin_id) => last.error # None
        /\ (/\ AsksStatusChange
            /\ last.args.status = Some("inactive")
            /\ last.user_id = last.admin_id) => last.error # None
        /\ (AsksRoleChange /\ last.args.role[1] \notin VALID_ROLES) => last.error # None
        /\ (AsksStatusChange /\ last.args.status[1] \notin VALID_STATUSES) => last.error # None
        /\ (~AsksRoleChange /\ ~AsksStatusChange) =>
              last.error # Some("Reason is required (minimum 10 characters) when changing role or status")
        /\ last.error # None => (UserUnchanged /\ AuditUnchanged)

\* update_user with a sufficient reason asked to change the actor's own role:
\* rejected by the self-change guard
C22_Witness ==
    /\ last.op = "update_user"
    /\ last.before # None
    /\ AsksRoleChange
    /\ last.args.role[1] \in VALID_ROLES
    /\ last.user_id = last.admin_id
    /\ TrimmedLength(last.reason) >= 10
    /\ last.error = Some("Cannot change your own role")

----------------------------------------------------------------------------
\* A step that is a check_permission call (the clock's steps leave `last` alone)
CheckStep == ticks' = ticks /\ last'.op = "check_permission" /\ "hit" \in DOMAIN last'

\* C23: get_role_permissions serves a role from the cache only when the role
\* is in the cache and the shared timestamp is less than 300 seconds old; the
\* timestamp is set by the first insert after the cache was cleared and no
\* later insert changes it; every insert (the fetch of a document) happens at
\* or after the timestamp of its window, so a served document is less than 300
\* seconds past the first insert of its window and past its own fetch.
C23_ServedStep ==
    /\ (CheckStep /\ last'.hit) =>
          /\ last'.role \in DOMAIN permCache
          /\ cacheTimestamp # None
          /\ now - cacheTimestamp[1] < cache_ttl_seconds
          /\ last'.permissions = Some(permCache[last'.role])
          /\ UNCHANGED <<permCache, cacheTimestamp>>
    /\ (cacheTimestamp # None /\ cacheTimestamp' # None) => cacheTimestamp' = cacheTimestamp
    /\ (cacheTimestamp = None /\ cacheTimestamp' # None) =>
          /\ cacheTimestamp' = Some(now)
          /\ permCache = EmptyDict
          /\ permCache' # EmptyDict
    /\ \A r \in DOMAIN permCache' :
          (r \notin DOMAIN permCache) =>
              /\ cacheTimestamp' # None
              /\ cacheTimestamp'[1] <= now
              /\ permStore[r] = Some(permCache'[r])
    /\ (permCache' # EmptyDict) => (cacheTimestamp' # None /\ cacheTimestamp'[1] <= now')
C23_CacheWindow == [][C23_ServedStep]_vars

\* a check served from the cache 299 seconds after the window's first insert,
\* the other role having been inserted later in the same window
C23_Witness ==
    /\ last.op = "check_permission"
    /\ last.hit
    /\ ticks = 1
    /\ cacheTimestamp = Some(0)
    /\ now = 299
    /\ DOMAIN permCache = PermRoles

\* C28: expiry starts a new cache window.  When the shared timestamp is 300
\* seconds old or older and a get_role_permissions(R) fetches R's document
\* from the store, the cache is valid for R afterwards: a following
\* get_role_permissions(R) at the same time would be served from the cache.
C28_RefetchStep ==
    (/\ CheckStep
     /\ ~last'.hit
     /\ last'.permissions # None
     /\ cacheTimestamp # None
     /\ now - cacheTimestamp[1] >= cache_ttl_seconds)
        => CacheHit(permCache', cacheTimestamp', now', last'.role)
C28_ExpiryStartsNewWindow == [][C28_RefetchStep]_vars

----------------------------------------------------------------------------
\* The audit service and the lifecycle operations on one store: log_event, the
\* three queries and the four operations of the admin user service.
AppendRequests ==
    { Request(NameNew, None, None, None, None),
      Request(None, None, Some("admin"), Some("suspended"), ReasonTenPadded) }

NextAppend ==
    \/ \E actor_id \in AuditActors, target_id \in {None, Some("u2")} :
          LogEvent(EVENT_USER_UPDATED, actor_id, target_id, None, None)
    \/ \E user_id \in HistoryUsers, limit \in HistoryLimits :
          GetUserAuditHistoryCall(user_id, limit, TRUE, TRUE)
    \/ \E limit \in {1}, offset \in QueryOffsets :
          GetAuditLogsCall(limit, offset, None, None, Some("u2"), None, None)
    \/ \E log_id \in AuditIds : GetAuditLogByIdCall(log_id)
    \/ \E new_role \in {"customer", "admin"} :
          ChangeUserRole("u2", new_role, "u1", ReasonTenPadded)
    \/ DeactivateUser("u2", "u1", ReasonTenPadded)
    \/ ReactivateUser("u2", "u1", ReasonNone)
    \/ \E q \in AppendRequests :
          UpdateUser("u2", "u1", q.name, q.mobile, q.role, q.status, q.reason)
    \/ AdvanceClock
    \/ Respond

SpecAppend == InitLife /\ [][NextAppend]_vars

\* C24: the audit log is append-only.  In every step of log_event, of an audit
\* query and of a lifecycle operation, every event of the log is still in the
\* log afterwards, under the same id and with every field unchanged, and the
\* log has not become shorter.
C24_KeepsEvents ==
    /\ Len(auditLog') >= Len(auditLog)
    /\ \A i \in 1..Len(auditLog) :
          \E j \in 1..Len(auditLog') :
             /\ auditLog'[j] = auditLog[i]
             /\ \A k \in 1..Len(auditLog') : auditLog'[k].id = auditLog[i].id => k = j
C24_AppendOnly == [][C24_KeepsEvents]_vars

\* a log holding an event written by log_event and, after it, an event
\* written by deactivate_user, read by a query
C24_Witness ==
    /\ Len(auditLog) >= 2
    /\ auditLog[1].data.eventType = EVENT_USER_UPDATED
    /\ auditLog[1].data.changes = None
    /\ auditLog[2].data.eventType = EVENT_USER_DEACTIVATED
    /\ last.op = "get_audit_logs"
    /\ Len(last.result) = 1

----------------------------------------------------------------------------
\* The account a lifecycle call acted on was active before the call and is a
\* different admin's account or the actor's own
ProtectedActiveTarget ==
    /\ last.op \in LifecycleOps
    /\ last.before # None
    /\ StatusOr(last.before[1], "active") = "active"
    /\ \/ last.before[1].role = "admin" /\ last.user_id # last.admin_id
       \/ last.user_id = last.admin_id

\* C26: no lifecycle operation takes a different admin's account, or the
\* actor's own account, out of status active: after any lifecycle call on such
\* an account the stored status is still active (update_user rejects a change
\* to suspended as it rejects a change to inactive).
C26_ProtectedStaysActive ==
    ProtectedActiveTarget =>
        StatusOr(users[last.user_id][1], "active") = "active"

\* The status change an audit event records, None when it records none
RecordedNewStatus(data) ==
    IF data.changes # None /\ "status" \in DOMAIN data.changes[1]
    THEN Some(data.changes[1].status.new) ELSE None

\* C27: in every audit event written by the lifecycle operations the event
\* type agrees with the recorded status change: a user.reactivated event has
\* changes.status.new = "active" and a user.deactivated event has
\* changes.status.new = "inactive".
C27_EventTypeAgreesWithStatus ==
    \A i \in 1..Len(auditLog) :
        /\ auditLog[i].data.eventType = EVENT_USER_REACTIVATED
              => RecordedNewStatus(auditLog[i].data) = Some("active")
        /\ auditLog[i].data.eventType = EVENT_USER_DEACTIVATED
              => RecordedNewStatus(auditLog[i].data) = Some("inactive")

----------------------------------------------------------------------------
(***************************************************************************)
(* Lifecycle calls of two requests on one user document, interleaved at    *)
(* the store's operations: doc_ref.get(), doc_ref.update(updates) and the  *)
(* insert of log_event.  The checks of a call run on the document it read. *)
(***************************************************************************)
LifeCall(op, user_id, admin_id, args, reason) ==
    [op |-> op, user_id |-> user_id, admin_id |-> admin_id, args |-> args, reason |-> reason]
LifeCalls ==
    { LifeCall("reactivate_user", "u2", "u1", EmptyDict, ReasonNone),
      LifeCall("deactivate_user", "u2", "u1", EmptyDict, ReasonTenPadded),
      LifeCall("change_user_role", "u2", "u1", [new_role |-> "admin"], ReasonTenPadded),
      LifeCall("change_user_role", "u2", "u1", [new_role |-> "customer"], ReasonTenPadded),
      LifeCall("update_user", "u2", "u1",
               [name |-> None, mobile |-> None, role |-> None, status |-> Some("suspended")],
               ReasonTenPadded) }

\* what the call does, given the document its doc_ref.get() returned
PlanOf(call, doc) ==
    LET admin_email == Some(EmailOf(call.admin_id)) IN
    CASE call.op = "reactivate_user" ->
            ReactivateUserPlan(doc, call.user_id, call.admin_id, admin_email, call.reason)
      [] call.op = "deactivate_user" ->
            DeactivateUserPlan(doc, call.user_id, call.admin_id, admin_email, call.reason)
      [] call.op = "change_user_role" ->
            ChangeUserRolePlan(doc, call.user_id, call.args.new_role, call.admin_id,
                               admin_email, call.reason)
      [] call.op = "update_user" ->
            UpdateUserPlan(doc, call.user_id, call.admin_id, admin_email, call.args.name,
                           call.args.mobile, call.args.role, call.args.status, call.reason)

InFlight == { p \in Procs : proc[p] # Idle }

\* doc_ref.get(): the request reads the user document
LifeRead(p, call) ==
    /\ proc[p] = Idle
    /\ Len(auditLog) + Cardinality(InFlight) < MaxAudit
    /\ proc' = [proc EXCEPT ![p] = [pc |-> "read", call |-> call, doc |-> users[call.user_id]]]
    /\ UNCHANGED <<permStore, permCache, cacheTimestamp, now, micro, ticks, users, auditLog, last>>

\* the checks on the document read, then doc_ref.update(updates) on the stored one
LifeUpdate(p) ==
    LET call == proc[p].call
        plan == PlanOf(call, proc[p].doc)
        accepted == plan.error = None /\ plan.event # None
    IN
    /\ proc[p].pc = "read"
    /\ IF accepted
       THEN /\ users' = [users EXCEPT ![call.user_id] =
                            Some(DictUpdate(users[call.user_id][1], plan.updates))]
            /\ proc' = [proc EXCEPT ![p] = [pc |-> "updated", call |-> call,
                                            event |-> plan.event[1]]]
       ELSE /\ users' = users
            /\ proc' = [proc EXCEPT ![p] = Idle]
    /\ last' = [op |-> call.op, user_id |-> call.user_id, admin_id |-> call.admin_id,
                args |-> call.args, reason |-> call.reason, error |-> plan.error,
                read |-> proc[p].doc, stored_before |-> users[call.user_id],
                event |-> plan.event]
    /\ UNCHANGED <<permStore, permCache, cacheTimestamp, now, micro, ticks, auditLog>>

\* AuditService.log_event: the insert of the call's audit event
LifeLog(p) ==
    /\ proc[p].pc = "updated"
    /\ \E id \in FreshIds : auditLog' = AddAuditDoc(auditLog, id, proc[p].event)
    /\ proc' = [proc EXCEPT ![p] = Idle]
    /\ UNCHANGED <<permStore, permCache, cacheTimestamp, now, micro, ticks, users, last>>

InitLifeConc ==
    /\ permStore = [r \in PermRoles |-> None]
    /\ permCache = EmptyDict
    /\ cacheTimestamp = None
    /\ now = 1
    /\ micro = 0
    /\ ticks = 0
    /\ proc = [p \in Procs |-> Idle]
    /\ \E second \in SecondUsers :
         users = [u \in UserIds |->
                    CASE u = "u1" -> Some(UserDoc(u, <<"A">>, <<"L">>, Some(<<>>), "admin", Some("active")))
                      [] u = "u2" -> Some(UserDoc(u, <<"B">>, <<>>, Some(<<>>), second[1], second[2]))
                      [] OTHER -> None]
    /\ auditLog = <<>>
    /\ last = NoCall

NextLifeConc ==
    \/ \E p \in Procs, call \in LifeCalls : LifeRead(p, call)
    \/ \E p \in Procs : LifeUpdate(p)
    \/ \E p \in Procs : LifeLog(p)

SpecLifeConc == InitLifeConc /\ [][NextLifeConc]_vars

\* user_data.get("status", default) as the operation reads it
DefaultStatusOf(op) == IF op = "reactivate_user" THEN "inactive" ELSE "active"

\* C25: the read-check-write of a role or status change on one user document
\* is atomic with respect to the other lifecycle calls on the same user: under
\* every interleaving at the store's operations, the old value in an accepted
\* call's audit event is the value the user document held immediately before
\* that call's write (so two concurrent reactivations of one user do not both
\* succeed).
C25_OldValueIsStoredValue ==
    (/\ last.op \in LifecycleOps
     /\ "stored_before" \in DOMAIN last
     /\ last.error = None
     /\ last.event # None)
    => LET changes == last.event[1].changes[1]
           stored == last.stored_before[1]
       IN /\ "status" \in DOMAIN changes
                => changes.status.old = StatusOr(stored, DefaultStatusOf(last.op))
          /\ "role" \in DOMAIN changes => changes.role.old = stored.role

----------------------------------------------------------------------------
(***************************************************************************)
(* routers/admin_audit.py: the audit endpoints, called by a user that      *)
(* passed require_permission("audit_logs", "view").  current_user is the    *)
(* dict of get_current_user: the caller's id and role.                     *)
(***************************************************************************)
CurrentUser(id, role) == [id |-> id, role |-> role]
Callers == { CurrentUser("u2", "support"), CurrentUser("u1", "admin") }

RouteResponse(op, current_user, status_code, body) ==
    [op |-> op, current_user |-> current_user, status_code |-> status_code, body |-> body]

\* GET /admin/audit-logs/{log_id}
RouteGetAuditLog(current_user, log_id) ==
    LET log == GetAuditLogById(log_id) IN
    /\ last = NoCall
    /\ last' = IF log = None
               THEN RouteResponse("get_audit_log", current_user, 404, <<>>)
               ELSE IF current_user.role = "support" /\ log[1].data.actorId # current_user.id
               THEN RouteResponse("get_audit_log", current_user, 403, <<>>)
               ELSE RouteResponse("get_audit_log", current_user, 200, <<log[1]>>)
    /\ UNCHANGED <<permVars, lifeVars>>

\* GET /admin/audit-logs
RouteGetAuditLogs(current_user, limit, offset, event_type, actor_id, target_id) ==
    LET own_or_given == IF current_user.role = "support" THEN Some(current_user.id)
                                                         ELSE actor_id
    IN
    /\ last = NoCall
    /\ last' = RouteResponse("get_audit_logs", current_user, 200,
                             GetAuditLogs(limit, offset, event_type, own_or_given,
                                          target_id, None, None))
    /\ UNCHANGED <<permVars, lifeVars>>

\* GET /admin/audit-logs/user/{user_id}
RouteGetUserAuditHistory(current_user, user_id, limit, include_as_actor, include_as_target) ==
    /\ last = NoCall
    /\ last' = IF current_user.role = "support" /\ user_id # current_user.id
               THEN RouteResponse("get_user_audit_history", current_user, 403, <<>>)
               ELSE RouteResponse("get_user_audit_history", current_user, 200,
                                  GetUserAuditHistory(user_id, limit, include_as_actor,
                                                      include_as_target))
    /\ UNCHANGED <<permVars, lifeVars>>

\* the handler get_recent_audit_logs; get_recent_audit_logs of the service is
\* get_audit_logs(limit=limit)
RouteGetRecentAuditLogs(current_user, limit) ==
    /\ last = NoCall
    /\ last' = RouteResponse("get_recent_audit_logs", current_user, 200,
                  IF current_user.role = "support"
                  THEN GetAuditLogs(limit, 0, None, Some(current_user.id), None, None, None)
                  ELSE GetAuditLogs(limit, 0, None, None, None, None, None))
    /\ UNCHANGED <<permVars, lifeVars>>

RouteLimits == {1, 3}
RouteUsers == {"u1", "u2"}

NextAuditRoutes ==
    \/ \E actor_id \in AuditActors, target_id \in AuditTargets :
          LogEvent(EVENT_USER_ROLE_CHANGED, actor_id, target_id, None, None)
    \/ \E current_user \in Callers, log_id \in AuditIds :
          RouteGetAuditLog(current_user, log_id)
    \/ \E current_user \in Callers, limit \in RouteLimits,
          actor_id \in {None, Some("u1")}, target_id \in {None, Some("u2")} :
          RouteGetAuditLogs(current_user, limit, 0, None, actor_id, target_id)
    \/ \E current_user \in Callers, user_id \in RouteUsers, limit \in RouteLimits,
          include_as_actor \in BOOLEAN, include_as_target \in BOOLEAN :
          RouteGetUserAuditHistory(current_user, user_id, limit, include_as_actor,
                                   include_as_target)
    \/ \E current_user \in Callers, limit \in RouteLimits :
          RouteGetRecentAuditLogs(current_user, limit)
    \/ AdvanceClock
    \/ Respond

SpecAuditRoutes == InitAudit /\ [][NextAuditRoutes]_vars

\* C29: a caller whose role is support never receives, through any audit
\* endpoint (by id, filtered list, user audit history, recent) and whatever
\* the query parameters, an audit record whose actorId is not the caller's id.
C29_SupportSeesOwnActionsOnly ==
    ("current_user" \in DOMAIN last /\ last.current_user.role = "support") =>
        \A i \in 1..Len(last.body) : last.body[i].data.actorId = last.current_user.id

----------------------------------------------------------------------------
(***************************************************************************)
(* UserService.authenticate_user.  The password hash of an account is set  *)
(* by create_user and written by no lifecycle operation; it is kept beside *)
(* the user document.                                                      *)
(***************************************************************************)
\* hash_password / verify_password: a hash verifies exactly the password it was made from
HashPassword(password) == <<"hash">> \o password
VerifyPassword(plain_password, hashed_password) == HashPassword(plain_password) = hashed_password
PasswordOf(u) == <<"pw", u>>
PasswordHashOf(u) == HashPassword(PasswordOf(u))
Passwords == { PasswordOf("u1"), PasswordOf("u2") }

\* authenticate_user, given the document get_user_by_email found (None: no
\* such user) and its password hash
AuthenticateResult_AnyStatus(user, password, password_hash) ==
    IF user = None THEN None
    ELSE IF ~VerifyPassword(password, password_hash) THEN None
    ELSE user
AuthenticateResult(user, password, password_hash) ==
    IF user = None THEN None
    ELSE IF ~VerifyPassword(password, password_hash) THEN None
    ELSE IF user[1].status # Some("active") THEN None
    ELSE user

AuthenticateUser(u, password) ==
    /\ last = NoCall
    /\ last' = [op |-> "authenticate_user", user_id |-> u, password |-> password,
                result |-> AuthenticateResult(users[u], password, PasswordHashOf(u))]
    /\ UNCHANGED <<permVars, lifeVars>>

LoginStatusRequests ==
    { Request(None, None, None, Some("active"), ReasonTenPadded),
      Request(None, None, None, Some("inactive"), ReasonTenPadded),
      Request(None, None, None, Some("suspended"), ReasonTenPadded) }

NextLogin ==
    \/ \E u \in UserIds, password \in Passwords : AuthenticateUser(u, password)
    \/ \E user_id \in {"u1", "u2"} : DeactivateUser(user_id, "u1", ReasonTenPadded)
    \/ ReactivateUser("u2", "u1", ReasonNone)
    \/ \E q \in LoginStatusRequests :
          UpdateUser("u2", "u1", q.name, q.mobile, q.role, q.status, q.reason)
    \/ Respond

SpecLogin == InitLife /\ [][NextLogin]_vars

\* The newest audit event that records a status change of the account u
StatusEventsOf(u) ==
    { i \in 1..Len(auditLog) :
        /\ auditLog[i].data.targetId = Some(u)
        /\ RecordedNewStatus(auditLog[i].data) # None }
LastRecordedStatus(u) ==
    LET newest == CHOOSE i \in StatusEventsOf(u) : \A j \in StatusEventsOf(u) : j <= i
    IN RecordedNewStatus(auditLog[newest].data)

\* C30: authenticate_user returns a user only when the stored status is
\* active: a login that succeeds finds the account stored as active, and after
\* a deactivation of the account that no later status change to active has
\* followed (the newest status change recorded for it is to inactive) no login
\* succeeds, even with the correct password.
C30_LoginOnlyWhenActive ==
    last.op = "authenticate_user" =>
        /\ last.result # None =>
              /\ users[last.user_id] # None
              /\ users[last.user_id][1].status = Some("active")
        /\ (StatusEventsOf(last.user_id) # {}
            /\ LastRecordedStatus(last.user_id) # Some("active")) => last.result = None

\* a login with the correct password refused after deactivate_user
C30_Witness ==
    /\ last.op = "authenticate_user"
    /\ last.password = PasswordOf(last.user_id)
    /\ StatusEventsOf(last.user_id) # {}
    /\ NewestEvent.eventType = EVENT_USER_DEACTIVATED
    /\ NewestEvent.targetId = Some(last.user_id)
    /\ users[last.user_id][1].status = Some("inactive")
    /\ last.result = None

=============================================================================
